---- MODULE Spec2Model ----
(***************************************************************************)
(* Harmonia: the RFC action ledger (models/base.go), the workflow          *)
(* controllers (controllers/controller.go) and the GitHub backend they     *)
(* drive (services/git/github.go).                                         *)
(*                                                                         *)
(* Strings that may hold a hash are modelled as one-field records so that  *)
(* a literal and a hash can be compared: [str |-> "x"] is the literal "x", *)
(* [sha |-> c] is the SHA-256 hex digest of the JSON text c, and           *)
(* [note |-> t] is the "target not found" diagnostic about target t.       *)
(***************************************************************************)
EXTENDS Integers, Sequences, FiniteSets, TLC

VARIABLES clock, branches, files, prs, reviews, tags, tasks, last, nops

vars == <<clock, branches, files, prs, reviews, tags, tasks, last, nops>>

\* ------------------------------------------------------------------ bounds
MaxClock == 2
MaxOps == 3
MaxTargets == 2

\* --------------------------------------------------------------- constants
BASE_BRANCH == "main"
APPROVED_STATE == "APPROVED"
APPROVE_REVIEW_TYPE == "APPROVE"
REQUEST_CHANGES_REVIEW_TYPE == "REQUEST_CHANGES"
COMMENT_REVIEW_TYPE == "COMMENT"
CommentAction == "comment"
LoadAction == "load"
LOAD_REQUESTED_STATUS == "load_requested"
NOT_APPLICABLE_STATUS == "not_applicable"
LOADING_STATUS == "loading"
SUCCESSFUL_STATUS == "successful"
FAILED_STATUS == "failed"
AddAction == "add"
ActionTarget == "action"
RfcTarget == "rfc"
ItemTarget == "item"
SignatureLookupKey == "signature"
CommentData == "comment"
CommenterData == "commenter"
NoteData == "note"
LoadStatus == "status"
LoadRequester == "requester"
ReviewerData == "reviewer"

\* ------------------------------------------------------------ string model
Str(s) == [str |-> s]
EmptyStr == Str("")

\* a Go map[string]interface{}: nil, or a set of <<key, value>> pairs
NilData == [nil |-> TRUE, kv |-> {}]
MapOf(pairs) == [nil |-> FALSE, kv |-> pairs]
HasKey(data, k) == \E p \in data.kv : p[1] = k
Get(data, k) == (CHOOSE p \in data.kv : p[1] = k)[2]
\* data[k] = v on a non-nil map
Put(data, k, v) == [nil |-> FALSE, kv |-> {p \in data.kv : p[1] # k} \cup {<<k, v>>}]

Target(tt, td, lk, lv) ==
    [targetType |-> tt, targetDescriptor |-> td, lookupKey |-> lk, lookupValue |-> lv]
NoTarget == Target("", "", "", EmptyStr)

\* ------------------------------------------------------------ JSON, hashes
\* MarshalAction that leaves `data` out of the text
MarshalActionNoData(a) ==
    [actionType |-> a.actionType, target |-> a.target, signature |-> a.signature,
     data |-> [omitted |-> TRUE]]

\* json.Marshal(action): `data` carries omitempty, so a nil map and an
\* empty map both vanish from the text
MarshalAction(a) ==
    [actionType |-> a.actionType, target |-> a.target, signature |-> a.signature,
     data |-> IF a.data.kv = {} THEN [omitted |-> TRUE] ELSE [object |-> a.data.kv]]

MarshalActions(as) == [i \in 1..Len(as) |-> MarshalAction(as[i])]

\* json.Marshal(rfc)
MarshalRFC(rfc) ==
    [actions |-> MarshalActions(rfc.actions), signature |-> rfc.signature,
     identifier |-> rfc.identifier]

\* json.Unmarshal into an Action: an omitted `data` decodes to a nil map
UnmarshalAction(t) ==
    [actionType |-> t.actionType, target |-> t.target, signature |-> t.signature,
     data |-> IF "omitted" \in DOMAIN t.data THEN NilData ELSE MapOf(t.data.object)]

\* json.Unmarshal(text, &RFC{})
UnmarshalRFC(text) ==
    [actions |-> [i \in 1..Len(text.actions) |-> UnmarshalAction(text.actions[i])],
     signature |-> text.signature, identifier |-> text.identifier]

\* Action.ToSha: sha256 over json.Marshal(action), signature field included
ActionToSha(a) == [sha |-> [action |-> MarshalAction(a)]]

\* RFC.ToSha: sha256 over json.Marshal(rfc), signature fields included
RFCToSha(rfc) == [sha |-> [rfc |-> MarshalRFC(rfc)]]

SignAction(a) == [a EXCEPT !.signature = ActionToSha(a)]

\* the loops "for _, action := range data.Actions { action.Signature = sha }"
SignActions(as) == [i \in 1..Len(as) |-> SignAction(as[i])]

\* ---------------------------------------------------------- client inputs
\* an add whose body carries a signature left over from an earlier download
ClientAdd ==
    [actionType |-> AddAction, target |-> Target(ItemTarget, "entity", "", EmptyStr),
     signature |-> Str("stale"), data |-> MapOf({<<"id", Str("123")>>})]
ClientComment ==
    [actionType |-> CommentAction, target |-> Target(RfcTarget, "", "", EmptyStr),
     signature |-> EmptyStr, data |-> MapOf({<<CommentData, Str("mine")>>})]
ClientLoad ==
    [actionType |-> LoadAction, target |-> NoTarget,
     signature |-> EmptyStr, data |-> MapOf({<<LoadStatus, Str("successful")>>})]

ClientRFC(as) == [actions |-> as, signature |-> EmptyStr, identifier |-> EmptyStr]

\* the request bodies of /submitRequest and /updateRequest
ClientRFCs ==
    {ClientRFC(<< >>), ClientRFC(<<ClientAdd>>), ClientRFC(<<ClientAdd, ClientComment>>),
     ClientRFC(<<ClientLoad, ClientLoad>>)}

\* ----------------------------------------------------------------- backend
\* one call of the Git interface, its arguments and whether it returned nil
Call(fn, args, ok) == [fn |-> fn, args |-> args, ok |-> ok]
Err(fn) == [err |-> fn]
NoErr == [err |-> "nil"]
NoId == 0

Without(f, k) == [x \in DOMAIN f \ {k} |-> f[x]]
With(f, k, v) == [x \in DOMAIN f \cup {k} |-> IF x = k THEN v ELSE f[x]]

NumApproved(rs, i) == Cardinality({j \in 1..i : rs[j].state = APPROVED_STATE})

\* GitHub.DismissApprovalReviews: walk the reviews in order and dismiss the
\* approvals; the call stops at the first DismissReview that fails, so
\* only the first k approvals are dismissed
DismissApprovalReviews(rs, k) ==
    [i \in 1..Len(rs) |->
        IF rs[i].state = APPROVED_STATE /\ NumApproved(rs, i) <= k
        THEN [rs[i] EXCEPT !.state = "DISMISSED"] ELSE rs[i]]

\* the state GitHub gives a review created with the event `type`
ReviewState(type) ==
    CASE type = APPROVE_REVIEW_TYPE -> APPROVED_STATE
      [] type = REQUEST_CHANGES_REVIEW_TYPE -> "CHANGES_REQUESTED"
      [] OTHER -> "COMMENTED"

MergeSha(id) == [sha |-> [merge |-> id]]

\* what one call leaves in the repository: refs, RFC files, pull requests,
\* reviews and tags
BranchesAfter(b, c) ==
    CASE c.fn = "CreateBranch" /\ c.ok -> b \cup {c.args[1]}
      [] c.fn = "DeleteBranch" /\ c.ok -> b \ {c.args[1]}
      [] OTHER -> b

FilesAfter(f, c) ==
    CASE c.fn = "CreateFile" /\ c.ok -> With(f, c.args[1], [json |-> MarshalRFC(c.args[3])])
      [] c.fn = "UpdateFile" /\ c.ok -> With(f, c.args[1], [json |-> MarshalRFC(c.args[2])])
      [] c.fn = "DeleteBranch" /\ c.ok -> Without(f, c.args[1])
      [] OTHER -> f

PrsAfter(p, c) ==
    CASE c.fn = "CreatePullRequest" /\ c.ok -> With(p, c.args[1], "open")
      [] c.fn = "MergePullRequest" /\ c.ok -> With(p, c.args[1], "merged")
      [] OTHER -> p

ReviewsAfter(r, c) ==
    CASE c.fn = "CreatePullRequest" /\ c.ok -> With(r, c.args[1], << >>)
      [] c.fn = "CreateReview" /\ c.ok ->
           With(r, c.args[1], Append(r[c.args[1]], [state |-> ReviewState(c.args[2].type),
                                                    user |-> c.args[3]]))
      \* the approvals dismissed before a failing DismissReview stay dismissed
      [] c.fn = "DismissApprovalReviews" ->
           With(r, c.args[2], DismissApprovalReviews(r[c.args[2]], c.args[3]))
      [] OTHER -> r

TagsAfter(t, c) ==
    CASE c.fn = "CreateTag" /\ c.ok -> t \cup {<<c.args[2], c.args[1]>>}
      [] OTHER -> t

RECURSIVE Fold(_, _, _)
Fold(Op(_, _), x, calls) ==
    IF calls = << >> THEN x ELSE Fold(Op, Op(x, Head(calls)), Tail(calls))

\* the repository after the calls of one handler
Effect(calls) ==
    /\ branches' = Fold(BranchesAfter, branches, calls)
    /\ files' = Fold(FilesAfter, files, calls)
    /\ prs' = Fold(PrsAfter, prs, calls)
    /\ reviews' = Fold(ReviewsAfter, reviews, calls)
    /\ tags' = Fold(TagsAfter, tags, calls)

Init ==
    /\ clock = 1
    /\ branches = {}
    /\ files = << >>
    /\ prs = << >>
    /\ reviews = << >>
    /\ tags = {}
    /\ tasks = << >>
    /\ last = [op |-> "none"]
    /\ nops = 0

Ids == 1..MaxClock
Parsable(id) == id \in DOMAIN files /\ "json" \in DOMAIN files[id]
\* the RFC in the file of branch id
Stored(id) == UnmarshalRFC(files[id].json)

\* time.Now().Unix() moves on between requests
Tick ==
    /\ clock < MaxClock
    /\ clock' = clock + 1
    /\ UNCHANGED <<branches, files, prs, reviews, tags, tasks, last, nops>>

\* somebody else commits to the RFC branch: the file no longer holds an RFC
ExternalCommit ==
    /\ \E id \in DOMAIN files :
          /\ "json" \in DOMAIN files[id]
          /\ files' = With(files, id, [garbage |-> TRUE])
    /\ UNCHANGED <<clock, branches, prs, reviews, tags, tasks, last, nops>>

\* CreateRFCIdentifier: the epoch second of the call
CreateRFCIdentifier == clock

\* a handler runs: its calls reach the repository and its outcome is recorded
Handle(rec) ==
    /\ nops < MaxOps
    /\ nops' = nops + 1
    /\ Effect(rec.calls)
    /\ last' = rec
    /\ UNCHANGED clock

\* ------------------------------------------------------------- the ledger
\* AddPersistentActions that carries every action of oldRFC over
AddPersistentActionsAll(rfc, oldRFC) ==
    [rfc EXCEPT !.actions = @ \o oldRFC.actions]

\* AddPersistentActions that appends the comment actions of oldRFC twice
AddPersistentActionsTwice(rfc, oldRFC) ==
    LET cs == SelectSeq(oldRFC.actions, LAMBDA a : a.actionType = CommentAction)
    IN [rfc EXCEPT !.actions = @ \o cs \o cs]

\* RFC.AddPersistentActions: append the comment actions of oldRFC
AddPersistentActions(rfc, oldRFC) ==
    [rfc EXCEPT !.actions = @ \o SelectSeq(oldRFC.actions,
                                           LAMBDA a : a.actionType = CommentAction)]

\* AddAction that appends the action as it was built
AddActionToUnsigned(rfc, action) ==
    [rfc EXCEPT !.actions = Append(@, action)]

\* AddAction that takes the RFC hash again after the append
AddActionToResigned(rfc, action) ==
    LET r == [rfc EXCEPT !.actions = Append(@, SignAction(action))]
    IN [r EXCEPT !.signature = RFCToSha(r)]

\* RFC.AddAction: sign the action and append it
AddActionTo(rfc, action) ==
    [rfc EXCEPT !.actions = Append(@, SignAction(action))]

RECURSIVE Repeat(_, _)
Repeat(s, n) == IF n = 0 THEN << >> ELSE s \o Repeat(s, n - 1)

RECURSIVE Flatten(_, _)
\* the sequences f[order[1]], f[order[2]], ... laid end to end
Flatten(f, order) ==
    IF order = << >> THEN << >> ELSE f[Head(order)] \o Flatten(f, Tail(order))

RECURSIVE AddActions(_, _)
\* AddAction for each action of the sequence, in order
AddActions(rfc, as) ==
    IF as = << >> THEN rfc ELSE AddActions(AddActionTo(rfc, Head(as)), Tail(as))

Perms(S) == {p \in [1..Cardinality(S) -> S] : \A i, j \in DOMAIN p : p[i] = p[j] => i = j}

\* the comment built for a target that is an action of the RFC
ActionComment(sig, cmt, commenter) ==
    [actionType |-> CommentAction,
     target |-> Target(ActionTarget, "", SignatureLookupKey, sig),
     signature |-> EmptyStr,
     data |-> MapOf({<<CommentData, Str(cmt)>>, <<CommenterData, Str(commenter)>>})]

\* RfcComment that notes the missing target whatever the target is
RfcCommentAlwaysNote(rfc, target, cmt, commenter) ==
    [actionType |-> CommentAction,
     target |-> Target(RfcTarget, "", SignatureLookupKey, rfc.signature),
     signature |-> EmptyStr,
     data |-> MapOf({<<CommentData, Str(cmt)>>, <<CommenterData, Str(commenter)>>,
                     <<NoteData, [note |-> target]>>})]

\* the comment built for the RFC itself or for a dangling target
RfcComment(rfc, target, cmt, commenter) ==
    [actionType |-> CommentAction,
     target |-> Target(RfcTarget, "", SignatureLookupKey, rfc.signature),
     signature |-> EmptyStr,
     data |-> IF target # rfc.signature
              THEN MapOf({<<CommentData, Str(cmt)>>, <<CommenterData, Str(commenter)>>,
                          <<NoteData, [note |-> target]>>})
              ELSE MapOf({<<CommentData, Str(cmt)>>, <<CommenterData, Str(commenter)>>})]

\* first loop of AddComments: every action whose signature is a key of
\* `comments` appends one comment per text to processed[signature]
ProcessedActions(rfc, comments, commenter, target) ==
    Repeat([j \in 1..Len(comments[target]) |->
               ActionComment(target, comments[target][j], commenter)],
           Cardinality({i \in 1..Len(rfc.actions) : rfc.actions[i].signature = target}))

\* second loop of AddComments: the targets the first loop left out
Processed(rfc, comments, commenter) ==
    [target \in DOMAIN comments |->
        IF ProcessedActions(rfc, comments, commenter, target) # << >>
        THEN ProcessedActions(rfc, comments, commenter, target)
        ELSE [j \in 1..Len(comments[target]) |->
                 RfcComment(rfc, target, comments[target][j], commenter)]]

\* RFC.AddComments; `order` is the order in which the range over the
\* `processed` map visits its keys
AddComments(rfc, comments, commenter, order) ==
    AddActions(rfc, Flatten(Processed(rfc, comments, commenter), order))

LoadIndexes(rfc) == {i \in 1..Len(rfc.actions) : rfc.actions[i].actionType = LoadAction}

\* UpdateLoadStatus writes into the data map of the first load action: a nil
\* map makes the assignment panic
UpdateLoadStatusPanics(rfc) ==
    /\ LoadIndexes(rfc) # {}
    /\ LET i == CHOOSE i \in LoadIndexes(rfc) : \A j \in LoadIndexes(rfc) : i <= j
       IN rfc.actions[i].data.nil

\* UpdateLoadStatus that appends a load action without looking for one
UpdateLoadStatusAppends(rfc, status, requester) ==
    AddActionTo(rfc, [actionType |-> LoadAction, target |-> NoTarget,
                      signature |-> EmptyStr,
                      data |-> MapOf({<<LoadStatus, Str(status)>>,
                                      <<LoadRequester, Str(requester)>>})])

\* RFC.UpdateLoadStatus
UpdateLoadStatus(rfc, status, requester) ==
    IF LoadIndexes(rfc) # {}
    THEN LET i == CHOOSE i \in LoadIndexes(rfc) : \A j \in LoadIndexes(rfc) : i <= j
             a == rfc.actions[i]
             updated == [a EXCEPT !.data = Put(Put(@, LoadStatus, Str(status)),
                                                LoadRequester, Str(requester))]
         IN [rfc EXCEPT !.actions[i] = SignAction(updated)]
    ELSE AddActionTo(rfc, [actionType |-> LoadAction, target |-> NoTarget,
                           signature |-> EmptyStr,
                           data |-> MapOf({<<LoadStatus, Str(status)>>,
                                           <<LoadRequester, Str(requester)>>})])

\* RFC.GetLoadStatus: the status of the first load action, if any
GetLoadStatus(rfc) ==
    IF LoadIndexes(rfc) = {} THEN [none |-> TRUE]
    ELSE LET i == CHOOSE i \in LoadIndexes(rfc) : \A j \in LoadIndexes(rfc) : i <= j
         IN IF HasKey(rfc.actions[i].data, LoadStatus)
            THEN Get(rfc.actions[i].data, LoadStatus) ELSE Str("<nil>")

\* ------------------------------------------------------------------ Submit
\* SubmitRFC that forgets the per-action signatures
SubmitRFCUnsigned(data) ==
    [actions |-> data.actions, signature |-> RFCToSha(data), identifier |-> data.identifier]

\* the RFC SubmitRequest hands to CreateFile: the RFC hash is taken first,
\* then every action is signed
SubmitRFC(data) ==
    [actions |-> SignActions(data.actions), signature |-> RFCToSha(data),
     identifier |-> data.identifier]

SubmitFails == {"none", "CreateBranch", "CreateFile", "CreatePullRequest"}

\* SubmitCalls that leaves the branch behind when the pull request cannot be
\* opened
SubmitCallsNoRevoke(data, branch, fail, delFails) ==
    LET cb == Call("CreateBranch", <<branch, BASE_BRANCH>>, fail # "CreateBranch")
        cf == Call("CreateFile", <<branch, branch, SubmitRFC(data)>>, fail # "CreateFile")
        cpr == Call("CreatePullRequest", <<branch, BASE_BRANCH>>, fail # "CreatePullRequest")
        db == Call("DeleteBranch", <<branch>>, ~delFails)
    IN CASE fail = "CreateBranch" -> <<cb>>
         [] fail = "CreateFile" -> <<cb, cf, db>>
         [] fail = "CreatePullRequest" -> <<cb, cf, cpr>>
         [] OTHER -> <<cb, cf, cpr>>

\* SubmitCalls that revokes the branch whatever failed
SubmitCallsRevokeAlways(data, branch, fail, delFails) ==
    LET cb == Call("CreateBranch", <<branch, BASE_BRANCH>>, fail # "CreateBranch")
        cf == Call("CreateFile", <<branch, branch, SubmitRFC(data)>>, fail # "CreateFile")
        cpr == Call("CreatePullRequest", <<branch, BASE_BRANCH>>, fail # "CreatePullRequest")
        db == Call("DeleteBranch", <<branch>>, ~delFails)
    IN CASE fail = "CreateBranch" -> <<cb, db>>
         [] fail = "CreateFile" -> <<cb, cf, db>>
         [] fail = "CreatePullRequest" -> <<cb, cf, cpr, db>>
         [] OTHER -> <<cb, cf, cpr>>

\* the backend calls of SubmitRequest; `fail` names the call that returns an
\* error and delFails tells whether the revoking DeleteBranch fails too
SubmitCalls(data, branch, fail, delFails) ==
    LET cb == Call("CreateBranch", <<branch, BASE_BRANCH>>, fail # "CreateBranch")
        cf == Call("CreateFile", <<branch, branch, SubmitRFC(data)>>, fail # "CreateFile")
        cpr == Call("CreatePullRequest", <<branch, BASE_BRANCH>>, fail # "CreatePullRequest")
        db == Call("DeleteBranch", <<branch>>, ~delFails)
    IN CASE fail = "CreateBranch" -> <<cb>>
         [] fail = "CreateFile" -> <<cb, cf, db>>
         [] fail = "CreatePullRequest" -> <<cb, cf, cpr, db>>
         [] OTHER -> <<cb, cf, cpr>>

\* what SubmitRequest returns: (&branch, nil) or (nil, err)
SubmitReturn(branch, fail) ==
    IF fail = "none" THEN [ret |-> branch, err |-> NoErr] ELSE [ret |-> NoId, err |-> Err(fail)]

SubmitRequest(data, fail, delFails) ==
    LET branch == CreateRFCIdentifier
    IN
    \* a ref that already exists cannot be created again
    /\ branch \in branches => fail = "CreateBranch"
    /\ delFails => fail \in {"CreateFile", "CreatePullRequest"}
    /\ UNCHANGED tasks
    /\ Handle([op |-> "Submit", data |-> data,
               calls |-> SubmitCalls(data, branch, fail, delFails),
               ret |-> SubmitReturn(branch, fail).ret,
               err |-> SubmitReturn(branch, fail).err])

Submit ==
    \E data \in ClientRFCs, fail \in SubmitFails, delFails \in BOOLEAN :
        SubmitRequest(data, fail, delFails)

\* ------------------------------------------------------------------ Update
\* UpdateRFC that takes the RFC hash before the persistent actions are carried
UpdateRFCSignedEarly(data, existingRFC) ==
    LET signed == [data EXCEPT !.actions = SignActions(data.actions)]
        hashed == [signed EXCEPT !.signature = RFCToSha(signed)]
    IN AddPersistentActions(hashed, existingRFC)

\* the RFC UpdateRequest hands to UpdateFile: sign the new actions, carry the
\* persistent actions over, then take the RFC hash
UpdateRFC(data, existingRFC) ==
    LET signed == [data EXCEPT !.actions = SignActions(data.actions)]
        carried == AddPersistentActions(signed, existingRFC)
    IN [carried EXCEPT !.signature = RFCToSha(carried)]

UpdateFails ==
    {"none", "GetPullRequest", "GetRFCContents", "Unmarshal", "UpdateFile", "GetReviews",
     "DismissApprovalReviews"}

\* UpdateCalls that goes on to write although the content could not be fetched
UpdateCallsWriteBlind(id, data, fail, k) ==
    LET gpr == Call("GetPullRequest", <<id>>, fail # "GetPullRequest")
        grc == Call("GetRFCContents", <<id>>, fail # "GetRFCContents")
        blind == Call("UpdateFile", <<id, UpdateRFC(data, ClientRFC(<< >>))>>, TRUE)
        uf == Call("UpdateFile", <<id, UpdateRFC(data, Stored(id))>>, fail # "UpdateFile")
        gr == Call("GetReviews", <<id>>, fail # "GetReviews")
        dar == Call("DismissApprovalReviews", <<reviews[id], id, k>>,
                    fail # "DismissApprovalReviews")
    IN CASE fail = "GetPullRequest" -> <<gpr>>
         [] fail \in {"GetRFCContents", "Unmarshal"} -> <<gpr, grc, blind>>
         [] fail = "UpdateFile" -> <<gpr, grc, uf>>
         [] fail = "GetReviews" -> <<gpr, grc, uf, gr>>
         [] OTHER -> <<gpr, grc, uf, gr, dar>>

\* the backend calls of UpdateRequest; k is the number of approvals dismissed
\* before a failing DismissReview
UpdateCalls(id, data, fail, k) ==
    LET gpr == Call("GetPullRequest", <<id>>, fail # "GetPullRequest")
        grc == Call("GetRFCContents", <<id>>, fail # "GetRFCContents")
        uf == Call("UpdateFile", <<id, UpdateRFC(data, Stored(id))>>, fail # "UpdateFile")
        gr == Call("GetReviews", <<id>>, fail # "GetReviews")
        dar == Call("DismissApprovalReviews", <<reviews[id], id, k>>,
                    fail # "DismissApprovalReviews")
    IN CASE fail = "GetPullRequest" -> <<gpr>>
         [] fail \in {"GetRFCContents", "Unmarshal"} -> <<gpr, grc>>
         [] fail = "UpdateFile" -> <<gpr, grc, uf>>
         [] fail = "GetReviews" -> <<gpr, grc, uf, gr>>
         [] OTHER -> <<gpr, grc, uf, gr, dar>>

\* the errors the repository forces on a handler that looks up RFC id:
\* exactly one pull request must exist for the branch, the file must exist,
\* and its content must parse
LookupFails(id, fail, before) ==
    /\ (fail \notin before /\ id \notin DOMAIN prs) => fail = "GetPullRequest"
    /\ (fail \notin before \cup {"GetPullRequest"} /\ id \notin DOMAIN files)
          => fail = "GetRFCContents"
    /\ (fail \notin before \cup {"GetPullRequest", "GetRFCContents"})
          => (fail = "Unmarshal" <=> ~Parsable(id))

\* the last request was an Update that overwrote the RFC file
Wrote(l) == l.op = "Update" /\ Len(l.calls) >= 3 /\ l.calls[3].ok

UpdateRequest(id, data, fail, k) ==
    /\ LookupFails(id, fail, {})
    /\ IF fail = "DismissApprovalReviews"
       THEN k < NumApproved(reviews[id], Len(reviews[id]))
       ELSE IF fail = "none" THEN k = Len(reviews[id]) ELSE k = 0
    /\ UNCHANGED tasks
    /\ Handle([op |-> "Update", id |-> id, data |-> data,
               again |-> Wrote(last) /\ last.id = id /\ last.data = data,
               calls |-> UpdateCalls(id, data, fail, k),
               ret |-> IF fail = "none" THEN id ELSE NoId,
               err |-> IF fail = "none" THEN NoErr ELSE Err(fail)])

Update ==
    \E id \in Ids, data \in ClientRFCs, fail \in UpdateFails, k \in 0..MaxOps :
        UpdateRequest(id, data, fail, k)

\* ------------------------------------------------------------------ Review
\* the login GetUserLogin returns for the caller's token and for the
\* machine token
UserLogin == "alice"
MachineLogin == "harmonia-machine"
Login(git) == IF git = "machine" THEN MachineLogin ELSE UserLogin

\* a review type the route accepts (the binding only requires a value) but
\* GitHub does not know
UNKNOWN_REVIEW_TYPE == "LOAD"

\* strings.ToLower(data.Type)
ToLower(type) ==
    CASE type = APPROVE_REVIEW_TYPE -> "approve"
      [] type = REQUEST_CHANGES_REVIEW_TYPE -> "request_changes"
      [] type = COMMENT_REVIEW_TYPE -> "comment"
      [] type = UNKNOWN_REVIEW_TYPE -> "load"

\* the action ReviewRequest builds to record the review itself
ReviewAction(rfc, type, topLevelComment, login) ==
    LET identifier == IF type = COMMENT_REVIEW_TYPE THEN CommentData ELSE ReviewerData
        data == MapOf({<<identifier, Str(login)>>})
    IN [actionType |-> ToLower(type),
        target |-> Target(RfcTarget, "", SignatureLookupKey, rfc.signature),
        signature |-> EmptyStr,
        data |-> IF topLevelComment # "" THEN Put(data, "comment", Str(topLevelComment))
                 ELSE data]

\* ReviewRFC that records every review, also a COMMENT without a top-level
\* comment
ReviewRFCAlways(stored, data, login, order) ==
    LET commented == AddComments(stored, data.comments, login, order)
    IN AddActionTo(commented,
                   ReviewAction(commented, data.type, data.topLevelComment, login))

\* the RFC ReviewRequest hands to UpdateFile
ReviewRFC(stored, data, login, order) ==
    LET commented == AddComments(stored, data.comments, login, order)
    IN IF data.type # COMMENT_REVIEW_TYPE \/ data.topLevelComment # ""
       THEN AddActionTo(commented,
                        ReviewAction(commented, data.type, data.topLevelComment, login))
       ELSE commented

\* a COMMENT or REQUEST_CHANGES review must carry some comment
ReviewInvalid(data) ==
    /\ data.type \in {COMMENT_REVIEW_TYPE, REQUEST_CHANGES_REVIEW_TYPE}
    /\ data.topLevelComment = ""
    /\ DOMAIN data.comments = {}

ReviewFails ==
    {"none", "Validation", "GetPullRequest", "GetUserLogin", "GetRFCContents", "Unmarshal",
     "UpdateFile", "CreateReview"}

\* the backend calls of ReviewRequest
ReviewCalls(id, data, order, fail) ==
    LET gpr == Call("GetPullRequest", <<id>>, fail # "GetPullRequest")
        gul == Call("GetUserLogin", << >>, fail # "GetUserLogin")
        grc == Call("GetRFCContents", <<id>>, fail # "GetRFCContents")
        uf == Call("UpdateFile", <<id, ReviewRFC(Stored(id), data, Login("user"), order)>>,
                   fail # "UpdateFile")
        cr == Call("CreateReview", <<id, data, Login("user")>>, fail # "CreateReview")
    IN CASE fail = "Validation" -> << >>
         [] fail = "GetPullRequest" -> <<gpr>>
         [] fail = "GetUserLogin" -> <<gpr, gul>>
         [] fail \in {"GetRFCContents", "Unmarshal"} -> <<gpr, gul, grc>>
         [] fail = "UpdateFile" -> <<gpr, gul, grc, uf>>
         [] OTHER -> <<gpr, gul, grc, uf, cr>>

\* a goroutine started by a handler
NewTask(kind, pc, git, id, rfc) ==
    [kind |-> kind, pc |-> pc, git |-> git, id |-> id, rfc |-> rfc, result |-> NoErr,
     log |-> << >>, base |-> MarshalRFC(rfc)]

\* ReviewSpawns that starts the task although CreateReview failed
ReviewSpawnsBeforeReview(data, fail) ==
    fail \in {"none", "CreateReview"} /\ data.type = APPROVE_REVIEW_TYPE /\ data.loadOnApproval

\* "go attemptLoadAndMerge(...)" after an approval that asks for the load
ReviewSpawns(data, fail) ==
    fail = "none" /\ data.type = APPROVE_REVIEW_TYPE /\ data.loadOnApproval

\* ReviewRequest; data = [type, topLevelComment, comments, loadOnApproval]
ReviewRequest(id, data, order, fail) ==
    /\ fail = "Validation" <=> ReviewInvalid(data)
    /\ LookupFails(id, fail, {"Validation", "GetUserLogin"})
    /\ (fail = "GetUserLogin" => id \in DOMAIN prs)
    \* GitHub rejects an event it does not know
    /\ (fail = "none" => data.type # UNKNOWN_REVIEW_TYPE)
    /\ tasks' = IF ReviewSpawns(data, fail)
                THEN Append(tasks,
                            NewTask("attemptLoadAndMerge", "lm_GetUserLogin", "machine", id,
                                    ReviewRFC(Stored(id), data, Login("user"), order)))
                ELSE tasks
    /\ Handle([op |-> "Review", id |-> id, data |-> data,
               calls |-> ReviewCalls(id, data, order, fail),
               spawned |-> ReviewSpawns(data, fail),
               err |-> IF fail = "none" THEN NoErr ELSE Err(fail)])

ReviewData(type, top, comments, loa) ==
    [type |-> type, topLevelComment |-> top, comments |-> comments, loadOnApproval |-> loa]

NoComments == << >>
OneComment(target) == [t \in {target} |-> <<"c1">>]
\* a target with an empty list of texts
NoTexts(target) == [t \in {target} |-> << >>]

\* the first action of the stored RFC when there is one
SomeTarget(id) ==
    IF Parsable(id) /\ Len(files[id].json.actions) > 0
    THEN files[id].json.actions[1].signature ELSE Str("nosuch")

\* the request bodies of /reviewRequest
ReviewInputs(id) ==
    {ReviewData(COMMENT_REVIEW_TYPE, "", NoComments, FALSE),
     ReviewData(COMMENT_REVIEW_TYPE, "top", NoComments, FALSE),
     ReviewData(COMMENT_REVIEW_TYPE, "", OneComment(SomeTarget(id)), FALSE),
     ReviewData(REQUEST_CHANGES_REVIEW_TYPE, "top", OneComment(Str("nosuch")), FALSE),
     ReviewData(APPROVE_REVIEW_TYPE, "", NoComments, FALSE),
     ReviewData(APPROVE_REVIEW_TYPE, "top", NoComments, TRUE),
     ReviewData(UNKNOWN_REVIEW_TYPE, "", NoComments, FALSE),
     ReviewData(COMMENT_REVIEW_TYPE, "", NoTexts(Str("nosuch")), FALSE)}

Review ==
    \E id \in Ids, fail \in ReviewFails :
      \E data \in ReviewInputs(id) :
        \E order \in Perms(DOMAIN data.comments) :
            ReviewRequest(id, data, order, fail)

\* -------------------------------------------------------------------- Load
LoadFails ==
    {"none", "GetUserLogin", "GetPullRequest", "GetRFCContents", "Unmarshal", "panic",
     "UpdateFile"}

\* the backend calls of LoadRequest
LoadCalls(id, fail) ==
    LET gul == Call("GetUserLogin", << >>, fail # "GetUserLogin")
        gpr == Call("GetPullRequest", <<id>>, fail # "GetPullRequest")
        grc == Call("GetRFCContents", <<id>>, fail # "GetRFCContents")
        uf == Call("UpdateFile",
                   <<id, UpdateLoadStatus(Stored(id), LOAD_REQUESTED_STATUS, Login("user"))>>,
                   fail # "UpdateFile")
    IN CASE fail = "GetUserLogin" -> <<gul>>
         [] fail = "GetPullRequest" -> <<gul, gpr>>
         [] fail \in {"GetRFCContents", "Unmarshal", "panic"} -> <<gul, gpr, grc>>
         [] OTHER -> <<gul, gpr, grc, uf>>

\* LoadRequest that starts the load although the write was refused
LoadSpawnsAfterFailedWrite(fail) == fail \in {"none", "UpdateFile"}

\* "go loadRequest(...)" is reached when no step before it returned
LoadSpawns(fail) == fail = "none"

\* LoadRequest
LoadRequest(id, fail) ==
    /\ LookupFails(id, fail, {"GetUserLogin"})
    /\ (fail \notin {"GetUserLogin", "GetPullRequest", "GetRFCContents", "Unmarshal"})
          => (fail = "panic" <=> UpdateLoadStatusPanics(Stored(id)))
    /\ tasks' = IF LoadSpawns(fail)
                THEN Append(tasks,
                            NewTask("loadRequest", "ld_GetUserLogin", "user", id,
                                    UpdateLoadStatus(Stored(id), LOAD_REQUESTED_STATUS,
                                                     Login("user"))))
                ELSE tasks
    /\ Handle([op |-> "Load", id |-> id, calls |-> LoadCalls(id, fail),
               spawned |-> LoadSpawns(fail),
               err |-> IF fail = "none" THEN NoErr ELSE Err(fail)])

Load == \E id \in Ids, fail \in LoadFails : LoadRequest(id, fail)

\* ------------------------------------------------------------------- Merge
MergeFails == {"none", "GetPullRequest", "MergePullRequest", "CreateTag"}

\* mergeRequest that tags although the merge failed
MergeRequestCallsTagAnyway(id, fail) ==
    <<Call("MergePullRequest", <<id>>, fail # "MergePullRequest"),
      Call("CreateTag", <<MergeSha(id), id>>, fail # "CreateTag")>>

\* the backend calls of mergeRequest: the merge, then the tag of the sha the
\* merge returned, named after the identifier
MergeRequestCalls(id, fail) ==
    LET mpr == Call("MergePullRequest", <<id>>, fail # "MergePullRequest")
        ct == Call("CreateTag", <<MergeSha(id), id>>, fail # "CreateTag")
    IN IF fail = "MergePullRequest" THEN <<mpr>> ELSE <<mpr, ct>>

\* MergeRequest
MergeRequest(id, fail) ==
    /\ id \notin DOMAIN prs => fail = "GetPullRequest"
    \* a merged pull request cannot be merged again
    /\ (fail # "GetPullRequest" /\ prs[id] = "merged") => fail = "MergePullRequest"
    /\ tasks' = tasks
    /\ Handle([op |-> "Merge", id |-> id,
               calls |-> <<Call("GetPullRequest", <<id>>, fail # "GetPullRequest")>>
                         \o (IF fail = "GetPullRequest" THEN << >>
                             ELSE MergeRequestCalls(id, fail)),
               err |-> IF fail = "none" THEN NoErr ELSE Err(fail)])

Merge == \E id \in Ids, fail \in MergeFails : MergeRequest(id, fail)

\* ------------------------------------------------------------------ Status
StatusFails == {"none", "GetRFCContents", "Unmarshal"}

\* a Status that marks the RFC as it reads it
StatusCallsMarks(id, fail) ==
    <<Call("GetRFCContents", <<id>>, fail # "GetRFCContents")>>
    \o (IF fail = "none"
        THEN <<Call("UpdateFile",
                    <<id, UpdateLoadStatus(Stored(id), LOAD_REQUESTED_STATUS,
                                           Login("machine"))>>, TRUE)>>
        ELSE << >>)

\* the backend calls of Status
StatusCalls(id, fail) == <<Call("GetRFCContents", <<id>>, fail # "GetRFCContents")>>

\* the route /status: a nil status is answered as "none"
StatusResponse(loadStatus) ==
    IF loadStatus = [none |-> TRUE] THEN Str("none") ELSE loadStatus

\* Status
StatusRequest(id, fail) ==
    /\ id \notin DOMAIN files => fail = "GetRFCContents"
    /\ fail # "GetRFCContents" => (fail = "Unmarshal" <=> ~Parsable(id))
    /\ tasks' = tasks
    /\ Handle([op |-> "Status", id |-> id, calls |-> StatusCalls(id, fail),
               ret |-> IF fail = "none" THEN StatusResponse(GetLoadStatus(Stored(id)))
                       ELSE Str("Status error occurred"),
               err |-> IF fail = "none" THEN NoErr ELSE Err(fail)])

Status == \E id \in Ids, fail \in StatusFails : StatusRequest(id, fail)

\* ------------------------------------------------------- background tasks
Running(t) == t \in DOMAIN tasks /\ tasks[t].pc # "done"

\* a return that leaves the goroutine where it is
FinishStays(t, err) == [tasks EXCEPT ![t].result = err]

\* the task returns err
Finish(t, err) == [tasks EXCEPT ![t].pc = "done", ![t].result = err]
Goto(t, pc) == [tasks EXCEPT ![t].pc = pc]
\* rfc.UpdateLoadStatus on the task's RFC, then on to the write
Mark(t, status, pc) ==
    [tasks EXCEPT ![t].rfc = UpdateLoadStatus(@, status, Login(tasks[t].git)), ![t].pc = pc]
\* an unrecovered panic in a goroutine ends the process, and every task with it
Crash == [t \in DOMAIN tasks |->
            IF tasks[t].pc # "done"
            THEN [tasks[t] EXCEPT !.pc = "done", !.result = Err("panic")] ELSE tasks[t]]

\* a task makes one backend call
TaskCall(t, c) ==
    /\ Effect(<<c>>)
    /\ last' = [op |-> "task", t |-> t, calls |-> <<c>>]
    /\ UNCHANGED <<clock, nops>>

TaskWrite(t, ok) == Call("UpdateFile", <<tasks[t].id, tasks[t].rfc>>, ok)

\* the record of a run: what the task has persisted, asked and handed over
Logged(ts, t, ev, v) == [ts EXCEPT ![t].log = Append(@, [ev |-> ev, v |-> v])]
\* UpdateFile returned nil: the file now holds the task's RFC
Persisted(t, ts) ==
    [Logged(ts, t, "UpdateFile", GetLoadStatus(tasks[t].rfc))
        EXCEPT ![t].base = MarshalRFC(tasks[t].rfc)]
\* GetMergeability returned a verdict
Asked(t, out, ts) ==
    IF out = "err" THEN ts ELSE Logged(ts, t, "GetMergeability", Str(out))

\* attemptLoadAndMerge that merges whatever the second verdict is
AfterSecondVerdictMerges(t, out) ==
    CASE out = "err" -> Finish(t, Err("GetMergeability"))
      [] OTHER -> Goto(t, "mg_MergePullRequest")

\* attemptLoadAndMerge after the mergeability query that follows the load
AfterSecondVerdict(t, out) ==
    CASE out = "err" -> Finish(t, Err("GetMergeability"))
      [] out = "false" -> Finish(t, Err("LOADED BUT NOT MERGED"))
      [] OTHER -> Goto(t, "mg_MergePullRequest")

\* attemptLoadAndMerge that merges at once when the request is mergeable
AfterFirstVerdictSkipsLoad(t, out) ==
    CASE out = "err" -> Finish(t, Err("GetMergeability"))
      [] out = "false" -> Mark(t, NOT_APPLICABLE_STATUS, "lm_UpdateFile_na")
      [] OTHER -> Goto(t, "mg_MergePullRequest")

\* attemptLoadAndMerge after the first mergeability query
AfterFirstVerdict(t, out) ==
    CASE out = "err" -> Finish(t, Err("GetMergeability"))
      [] out = "false" -> Mark(t, NOT_APPLICABLE_STATUS, "lm_UpdateFile_na")
      [] OTHER -> Goto(t, "ld_GetUserLogin")

\* AttemptLoadAndMergeStep that goes on to the load whatever the first
\* mergeability verdict is
AttemptLoadAndMergeStepIgnoresVerdict(t, out) ==
    /\ Running(t)
    /\ CASE tasks[t].pc = "lm_GetUserLogin" ->
              /\ out \in {"ok", "err"}
              /\ TaskCall(t, Call("GetUserLogin", << >>, out = "ok"))
              /\ tasks' = IF out = "err" THEN Finish(t, Err("GetUserLogin"))
                          ELSE IF UpdateLoadStatusPanics(tasks[t].rfc) THEN Crash
                          ELSE Mark(t, LOAD_REQUESTED_STATUS, "lm_UpdateFile_requested")
         [] tasks[t].pc = "lm_UpdateFile_requested" ->
              /\ out \in {"ok", "err"}
              /\ TaskCall(t, TaskWrite(t, out = "ok"))
              /\ tasks' = IF out = "err" THEN Finish(t, Err("UpdateFile"))
                          ELSE Persisted(t, Goto(t, "lm_GetMergeability_1"))
         [] tasks[t].pc = "lm_GetMergeability_1" ->
              /\ TaskCall(t, Call("GetMergeability", <<tasks[t].id, out>>, out # "err"))
              /\ tasks' = Asked(t, out,
                                CASE out = "err" -> Finish(t, Err("GetMergeability"))
                                  [] OTHER -> Goto(t, "ld_GetUserLogin"))
         [] tasks[t].pc = "lm_UpdateFile_na" ->
              /\ out \in {"ok", "err"}
              /\ TaskCall(t, TaskWrite(t, out = "ok"))
              /\ tasks' = IF out = "err" THEN Finish(t, Err("UpdateFile"))
                          ELSE Persisted(t, Finish(t, NoErr))
         [] tasks[t].pc = "lm_GetMergeability_2" ->
              /\ TaskCall(t, Call("GetMergeability", <<tasks[t].id, out>>, out # "err"))
              /\ tasks' = Asked(t, out, AfterSecondVerdict(t, out))
         [] OTHER -> FALSE

\* one backend call of attemptLoadAndMerge and the code up to the next one;
\* out is "ok", "err" or (GetMergeability only) "false"
AttemptLoadAndMergeStep(t, out) ==
    /\ Running(t)
    /\ CASE tasks[t].pc = "lm_GetUserLogin" ->
              /\ out \in {"ok", "err"}
              /\ TaskCall(t, Call("GetUserLogin", << >>, out = "ok"))
              /\ tasks' = IF out = "err" THEN Finish(t, Err("GetUserLogin"))
                          ELSE IF UpdateLoadStatusPanics(tasks[t].rfc) THEN Crash
                          ELSE Mark(t, LOAD_REQUESTED_STATUS, "lm_UpdateFile_requested")
         [] tasks[t].pc = "lm_UpdateFile_requested" ->
              /\ out \in {"ok", "err"}
              /\ TaskCall(t, TaskWrite(t, out = "ok"))
              /\ tasks' = IF out = "err" THEN Finish(t, Err("UpdateFile"))
                          ELSE Persisted(t, Goto(t, "lm_GetMergeability_1"))
         [] tasks[t].pc = "lm_GetMergeability_1" ->
              /\ TaskCall(t, Call("GetMergeability", <<tasks[t].id, out>>, out # "err"))
              /\ tasks' = Asked(t, out, AfterFirstVerdict(t, out))
         [] tasks[t].pc = "lm_UpdateFile_na" ->
              /\ out \in {"ok", "err"}
              /\ TaskCall(t, TaskWrite(t, out = "ok"))
              /\ tasks' = IF out = "err" THEN Finish(t, Err("UpdateFile"))
                          ELSE Persisted(t, Finish(t, NoErr))
         [] tasks[t].pc = "lm_GetMergeability_2" ->
              /\ TaskCall(t, Call("GetMergeability", <<tasks[t].id, out>>, out # "err"))
              /\ tasks' = Asked(t, out, AfterSecondVerdict(t, out))
         [] OTHER -> FALSE

\* loadRequest that returns to a caller that merges without asking again
AfterLoadedMerges(t) ==
    IF tasks[t].kind = "attemptLoadAndMerge" THEN Goto(t, "mg_MergePullRequest")
    ELSE Finish(t, NoErr)

\* loadRequest returns nil: attemptLoadAndMerge asks for the mergeability again,
\* the goroutine of LoadRequest ends
AfterLoaded(t) ==
    IF tasks[t].kind = "attemptLoadAndMerge" THEN Goto(t, "lm_GetMergeability_2")
    ELSE Finish(t, NoErr)

\* the outcomes of handing the content to the data store; the code holds
\* no call whose error it could read
StoreOutcomes == {"ok", "failed"}

\* one backend call of loadRequest and the code up to the next one; store is
\* what becomes of the content in the data store after the loading write
LoadRequestStep(t, out, store) ==
    /\ Running(t)
    /\ CASE tasks[t].pc = "ld_GetUserLogin" ->
              /\ store = "ok"
              /\ TaskCall(t, Call("GetUserLogin", << >>, out = "ok"))
              /\ tasks' = IF out = "err" THEN Finish(t, Err("GetUserLogin"))
                          ELSE IF UpdateLoadStatusPanics(tasks[t].rfc) THEN Crash
                          ELSE Mark(t, LOADING_STATUS, "ld_UpdateFile_loading")
         [] tasks[t].pc = "ld_UpdateFile_loading" ->
              /\ out = "err" => store = "ok"
              /\ TaskCall(t, TaskWrite(t, out = "ok"))
              \* json.Marshal, the hand-over to the data store, then the next mark
              /\ tasks' = IF out = "err" THEN Finish(t, Err("UpdateFile"))
                          ELSE Logged(Persisted(t, Mark(t, SUCCESSFUL_STATUS,
                                                        "ld_UpdateFile_successful")),
                                      t, "store", Str(store))
         [] tasks[t].pc = "ld_UpdateFile_successful" ->
              /\ store = "ok"
              /\ TaskCall(t, TaskWrite(t, out = "ok"))
              /\ tasks' = IF out = "err" THEN Finish(t, Err("UpdateFile"))
                          ELSE Persisted(t, AfterLoaded(t))
         [] OTHER -> FALSE

\* one backend call of mergeRequest
MergeRequestStep(t, out) ==
    /\ Running(t)
    /\ CASE tasks[t].pc = "mg_MergePullRequest" ->
              \* a merged pull request cannot be merged again
              /\ prs[tasks[t].id] = "merged" => out = "err"
              /\ TaskCall(t, Call("MergePullRequest", <<tasks[t].id>>, out = "ok"))
              /\ tasks' = Logged(IF out = "err" THEN Finish(t, Err("MergePullRequest"))
                                 ELSE Goto(t, "mg_CreateTag"),
                                 t, "MergePullRequest", Str(out))
         [] tasks[t].pc = "mg_CreateTag" ->
              /\ TaskCall(t, Call("CreateTag", <<MergeSha(tasks[t].id), tasks[t].id>>,
                                  out = "ok"))
              /\ tasks' = Logged(Finish(t, IF out = "err" THEN Err("CreateTag") ELSE NoErr),
                                 t, "CreateTag", Str(out))
         [] OTHER -> FALSE

TaskIds == 1..MaxOps

\* the goroutine t takes its next step
TaskStep(t) ==
    \/ \E out \in {"ok", "err", "false"} : AttemptLoadAndMergeStep(t, out)
    \/ \E out \in {"ok", "err"}, store \in StoreOutcomes : LoadRequestStep(t, out, store)
    \/ \E out \in {"ok", "err"} : MergeRequestStep(t, out)

AttemptLoadAndMerge ==
    \E t \in TaskIds, out \in {"ok", "err", "false"} : AttemptLoadAndMergeStep(t, out)
LoadTask ==
    \E t \in TaskIds, out \in {"ok", "err"}, store \in StoreOutcomes :
        LoadRequestStep(t, out, store)
MergeTask == \E t \in TaskIds, out \in {"ok", "err"} : MergeRequestStep(t, out)

\* ---------------------------------------------------------- specifications
Next ==
    \/ Tick
    \/ Submit
    \/ Update
    \/ Review
    \/ Load
    \/ ExternalCommit
    \/ AttemptLoadAndMerge
    \/ LoadTask
    \/ MergeTask

Spec == Init /\ [][Next]_vars

\* submissions only
NextSubmit == Tick \/ Submit
SpecSubmit == Init /\ [][NextSubmit]_vars

\* one RFC under review and update
NextUpdate == Submit \/ Review \/ Update \/ ExternalCommit
SpecUpdate == Init /\ [][NextUpdate]_vars

\* one RFC through review, update, load and merge
NextWorkflow ==
    \/ Submit
    \/ Update
    \/ Review
    \/ Load
    \/ AttemptLoadAndMerge
    \/ LoadTask
    \/ MergeTask
SpecWorkflow == Init /\ [][NextWorkflow]_vars

\* the ledger operations on their own, applied to an RFC as a handler holds it
LedgerRFCs ==
    {SubmitRFC(d) : d \in ClientRFCs}
        \cup {ReviewRFC(SubmitRFC(ClientRFC(<<ClientAdd>>)),
                        ReviewData(COMMENT_REVIEW_TYPE, "top", NoComments, FALSE),
                        UserLogin, << >>)}
LedgerTargets(rfc) ==
    {rfc.signature, Str("nosuch")} \cup {rfc.actions[i].signature : i \in 1..Len(rfc.actions)}
LedgerTexts == {<< >>, <<"c1">>, <<"c1", "c2">>}
\* the `comments` maps: up to MaxTargets target signatures, each with its texts
LedgerComments(rfc) ==
    UNION {[K -> LedgerTexts] :
              K \in {K \in SUBSET LedgerTargets(rfc) : Cardinality(K) <= MaxTargets}}

InitLedger ==
    /\ clock = 1
    /\ branches = {}
    /\ files = << >>
    /\ prs = << >>
    /\ reviews = << >>
    /\ tags = {}
    /\ tasks = << >>
    /\ nops = 0
    /\ \E rfc \in LedgerRFCs : last = [op |-> "rfc", rfc |-> rfc]

LedgerAddComments ==
    /\ last.op = "rfc"
    /\ \E comments \in LedgerComments(last.rfc) :
         \E order \in Perms(DOMAIN comments) :
            last' = [op |-> "AddComments", before |-> last.rfc, comments |-> comments,
                     rfc |-> AddComments(last.rfc, comments, UserLogin, order)]
    /\ UNCHANGED <<clock, branches, files, prs, reviews, tags, tasks, nops>>

NextLedger == LedgerAddComments
SpecLedger == InitLedger /\ [][NextLedger]_vars

\* the hash functions on their own, applied to two actions and to the RFCs
\* that hold them
SignTypes == {AddAction, CommentAction}
SignTargets == {NoTarget, Target(ItemTarget, "entity", "", EmptyStr)}
SignData ==
    {NilData, MapOf({}), MapOf({<<"id", Str("123")>>}), MapOf({<<"id", Str("124")>>}),
     MapOf({<<"id", Str("123")>>, <<"name", Str("n")>>})}
SignSignatures == {EmptyStr, Str("stale")}
SignActionPool ==
    [actionType : SignTypes, target : SignTargets, signature : SignSignatures, data : SignData]
RFCOf(as) == [actions |-> as, signature |-> EmptyStr, identifier |-> EmptyStr]

InitSign ==
    /\ clock = 1
    /\ branches = {}
    /\ files = << >>
    /\ prs = << >>
    /\ reviews = << >>
    /\ tags = {}
    /\ tasks = << >>
    /\ nops = 0
    /\ \E a, b \in SignActionPool : last = [op |-> "pair", a |-> a, b |-> b]

\* Action.ToSha on both actions, RFC.ToSha on the RFCs that hold them
SignToSha ==
    /\ last.op = "pair"
    /\ last' = [op |-> "ToSha", a |-> last.a, b |-> last.b,
                ha |-> ActionToSha(last.a), hb |-> ActionToSha(last.b),
                ra |-> RFCToSha(RFCOf(<<last.a>>)), rb |-> RFCToSha(RFCOf(<<last.b>>))]
    /\ UNCHANGED <<clock, branches, files, prs, reviews, tags, tasks, nops>>

NextSign == SignToSha
SpecSign == InitSign /\ [][NextSign]_vars

\* one RFC reviewed, loaded and merged
NextLoad ==
    \/ Submit
    \/ Review
    \/ Load
    \/ Merge
    \/ AttemptLoadAndMerge
    \/ LoadTask
    \/ MergeTask
SpecLoad == Init /\ [][NextLoad]_vars

\* one RFC loaded on request and asked for its status
NextStatus == Submit \/ Load \/ Status \/ LoadTask
SpecStatus == Init /\ [][NextStatus]_vars

\* the scheduler lets every goroutine that can take a step take it, and
\* every backend call returns
TaskFairness == \A t \in TaskIds : WF_vars(TaskStep(t))

\* the reviews are approvals that ask for the load
ApproveAndLoad ==
    \E id \in Ids, fail \in ReviewFails :
        ReviewRequest(id, ReviewData(APPROVE_REVIEW_TYPE, "top", NoComments, TRUE), << >>, fail)

\* the background tasks, started by approvals and by load requests
NextRun ==
    \/ Submit
    \/ ApproveAndLoad
    \/ Load
    \/ AttemptLoadAndMerge
    \/ LoadTask
    \/ MergeTask
SpecRun == Init /\ [][NextRun]_vars
SpecRunFair == SpecRun /\ TaskFairness

\* ------------------------------------- SubmitRequest, one call at a time
\* a backend that creates a ref whether or not it exists
RefExistsNever(branch) == FALSE

\* GitHub refuses to create a ref that exists
RefExists(branch) == branch \in branches

\* a request reaches SubmitRequest: the RFC is signed and the identifier drawn
SubmitStart ==
    /\ \E data \in {ClientRFC(<< >>), ClientRFC(<<ClientAdd>>)} :
          tasks' = Append(tasks, NewTask("SubmitRequest", "sb_CreateBranch", "user",
                                         CreateRFCIdentifier, SubmitRFC(data)))
    /\ Handle([op |-> "SubmitStart", calls |-> << >>])

\* the return after the revoke: the error of the call that failed
Revoke(t, fn) == [tasks EXCEPT ![t].pc = "sb_DeleteBranch", ![t].result = Err(fn)]

\* one backend call of SubmitRequest and the code up to the next one
SubmitRequestStep(t, out) ==
    /\ Running(t)
    /\ CASE tasks[t].pc = "sb_CreateBranch" ->
              /\ RefExists(tasks[t].id) => out = "err"
              /\ TaskCall(t, Call("CreateBranch", <<tasks[t].id, BASE_BRANCH>>, out = "ok"))
              /\ tasks' = IF out = "err" THEN Finish(t, Err("CreateBranch"))
                          ELSE Logged(Goto(t, "sb_CreateFile"), t, "CreateBranch", Str(out))
         [] tasks[t].pc = "sb_CreateFile" ->
              /\ TaskCall(t, Call("CreateFile", <<tasks[t].id, tasks[t].id, tasks[t].rfc>>,
                                  out = "ok"))
              /\ tasks' = IF out = "err" THEN Revoke(t, "CreateFile")
                          ELSE Goto(t, "sb_CreatePullRequest")
         [] tasks[t].pc = "sb_CreatePullRequest" ->
              /\ TaskCall(t, Call("CreatePullRequest", <<tasks[t].id, BASE_BRANCH>>,
                                  out = "ok"))
              /\ tasks' = IF out = "err" THEN Revoke(t, "CreatePullRequest")
                          ELSE Finish(t, NoErr)
         [] tasks[t].pc = "sb_DeleteBranch" ->
              /\ TaskCall(t, Call("DeleteBranch", <<tasks[t].id>>, out = "ok"))
              /\ tasks' = Logged(Finish(t, tasks[t].result), t, "DeleteBranch", Str(out))
         [] OTHER -> FALSE

SubmitTask == \E t \in TaskIds, out \in {"ok", "err"} : SubmitRequestStep(t, out)

\* requests that overlap, within one second or not
NextSubmitSteps == Tick \/ SubmitStart \/ SubmitTask
SpecSubmitSteps == Init /\ [][NextSubmitSteps]_vars

\* ------------------------------------------------------ RFC.AddAction alone
\* json.Marshal fails on a value it has no encoding for, a channel say
Unsupported == [unsupported |-> "chan"]
Marshalable(action) == \A p \in action.data.kv : p[2] # Unsupported
AddActionPool ==
    SignActionPool
        \cup {[actionType |-> AddAction, target |-> NoTarget, signature |-> EmptyStr,
               data |-> MapOf({<<"id", Str("123")>>, <<"ch", Unsupported>>})]}

\* RFC.AddAction with its error: ToSha fails before anything is appended
AddActionResult(rfc, action) ==
    IF Marshalable(action) THEN [rfc |-> AddActionTo(rfc, action), err |-> "nil"]
    ELSE [rfc |-> rfc, err |-> "json: unsupported type"]

LedgerAddAction ==
    /\ last.op = "rfc"
    /\ \E action \in AddActionPool :
          last' = [op |-> "AddAction", before |-> last.rfc, action |-> action,
                   rfc |-> AddActionResult(last.rfc, action).rfc,
                   err |-> AddActionResult(last.rfc, action).err]
    /\ UNCHANGED <<clock, branches, files, prs, reviews, tags, tasks, nops>>

NextAddAction == LedgerAddAction
SpecAddAction == InitLedger /\ [][NextAddAction]_vars

\* --------------------------------------------- GitHub.GetMergeability alone
MERGEABILITY_CLEAN_STATE == "clean"
MERGEABILITY_PENDING_STATE == "pending"
MERGEABILITY_UNKNOWN_STATE == "unknown"
MERGEABILITY_RETRY_COUNT == 3

\* what GetCombinedStatus can answer: no state, or one of GitHub's states
CombinedStates == {"nil", MERGEABILITY_PENDING_STATE, "success", "failure"}
\* what PullRequests.Get can answer for the mergeable state
MergeableStates ==
    {"nil", MERGEABILITY_UNKNOWN_STATE, MERGEABILITY_CLEAN_STATE, "dirty", "blocked",
     "unstable"}

\* a loop that polls one query too many
RetriesLeftOneMore(retryCount) == retryCount <= MERGEABILITY_RETRY_COUNT

\* the loop condition "retryCount < MERGEABILITY_RETRY_COUNT"
RetriesLeft(retryCount) == retryCount < MERGEABILITY_RETRY_COUNT

\* "status.State != nil && *status.State == MERGEABILITY_PENDING_STATE"
StillPending(state) == state = MERGEABILITY_PENDING_STATE

\* "githubPr.MergeableState == nil || *githubPr.MergeableState == MERGEABILITY_UNKNOWN_STATE"
StillUnknown(state) == state = "nil" \/ state = MERGEABILITY_UNKNOWN_STATE

\* a verdict that takes everything but a conflict for mergeable
MergeableUnlessDirty(state) == state # "dirty"

\* "mergeable := *githubPr.MergeableState == MERGEABILITY_CLEAN_STATE"
Mergeable(state) == state = MERGEABILITY_CLEAN_STATE

\* a result that answers false when the state was never determined
MergeabilityResultGuesses(state) ==
    IF StillUnknown(state) THEN "false"
    ELSE IF Mergeable(state) THEN "ok" ELSE "false"

\* the end of GetMergeability, after the second loop: "ok" is a true verdict,
\* "false" a false one, "err" no verdict
MergeabilityResult(state) ==
    IF StillUnknown(state) THEN "err"
    ELSE IF Mergeable(state) THEN "ok" ELSE "false"

InitMergeability ==
    /\ clock = 1
    /\ branches = {}
    /\ files = << >>
    /\ prs = << >>
    /\ reviews = << >>
    /\ tags = {}
    /\ tasks = << >>
    /\ nops = 0
    /\ last = [op |-> "GetMergeability", pc |-> "status", retryCount |-> 0,
               statuses |-> << >>, states |-> << >>, out |-> "running"]

\* a first loop that gives up when the checks are pending to the end
AfterStatusLoopGivesUp(l, r) ==
    IF StillPending(r)
    THEN [l EXCEPT !.pc = "done", !.statuses = Append(@, r), !.out = "err"]
    ELSE [l EXCEPT !.pc = "pr", !.retryCount = 0, !.statuses = Append(@, r)]

\* the first loop is left, by break or by its condition: on to the fetches
AfterStatusLoop(l, r) == [l EXCEPT !.pc = "pr", !.retryCount = 0, !.statuses = Append(@, r)]

\* one turn of the first loop: GetCombinedStatus, then sleep and continue
\* while the state is pending, break otherwise
GetCombinedStatus(r) ==
    /\ last.op = "GetMergeability" /\ last.pc = "status"
    /\ last' =
         IF r = "err"
         THEN [last EXCEPT !.pc = "done", !.statuses = Append(@, r), !.out = "err"]
         ELSE IF StillPending(r) /\ RetriesLeft(last.retryCount + 1)
         THEN [last EXCEPT !.retryCount = @ + 1, !.statuses = Append(@, r)]
         ELSE AfterStatusLoop(last, r)
    /\ UNCHANGED <<clock, branches, files, prs, reviews, tags, tasks, nops>>

\* one turn of the second loop: PullRequests.Get, then sleep and continue
\* while the state is unknown, break otherwise; after the loop the result
GetPullRequestState(r) ==
    /\ last.op = "GetMergeability" /\ last.pc = "pr"
    /\ last' =
         IF r = "err"
         THEN [last EXCEPT !.pc = "done", !.states = Append(@, r), !.out = "err"]
         ELSE IF StillUnknown(r) /\ RetriesLeft(last.retryCount + 1)
         THEN [last EXCEPT !.retryCount = @ + 1, !.states = Append(@, r)]
         ELSE [last EXCEPT !.pc = "done", !.states = Append(@, r),
                           !.out = MergeabilityResult(r)]
    /\ UNCHANGED <<clock, branches, files, prs, reviews, tags, tasks, nops>>

PollStatus == \E r \in CombinedStates \cup {"err"} : GetCombinedStatus(r)
PollPullRequest == \E r \in MergeableStates \cup {"err"} : GetPullRequestState(r)

NextMergeability == PollStatus \/ PollPullRequest
SpecMergeability == InitMergeability /\ [][NextMergeability]_vars

\* ------------------------------------------------------ the set package
\* a Set[K] value: the nil interface, or a pointer to a set or an
\* immutableSet with the keys of its vals map
NilSet == [kind |-> "nil"]
SetValues == {1, 2, 4}
SetPool == [kind : {"set", "immutableSet"}, vals : SUBSET SetValues]
\* the variadic arguments of Add and Delete
SetArgs == {<< >>, <<1>>, <<4>>, <<1, 2>>, <<2, 2>>}
Elems(seq) == {seq[i] : i \in DOMAIN seq}

\* an immutable set whose Add adds
SetAddAlways(s, vals) == [s |-> [s EXCEPT !.vals = @ \cup Elems(vals)], err |-> "nil"]

\* set.Add, immutableSet.Add
SetAdd(s, vals) ==
    IF s.kind = "immutableSet"
    THEN [s |-> s, err |-> "unsupported operation: Add. cannot modify an immutable set"]
    ELSE [s |-> [s EXCEPT !.vals = @ \cup Elems(vals)], err |-> "nil"]

\* set.Delete, immutableSet.Delete
SetDelete(s, vals) ==
    IF s.kind = "immutableSet"
    THEN [s |-> s, err |-> "unsupported operation: Delete. cannot modify an immutable set"]
    ELSE [s |-> [s EXCEPT !.vals = @ \ Elems(vals)], err |-> "nil"]

SetContains(s, val) == val \in s.vals
SetSize(s) == Cardinality(s.vals)

\* an intersection that keeps what the receiver holds
SetIntersectKeepsAll(s, other) == [kind |-> s.kind, vals |-> s.vals]

\* set.Intersect, immutableSet.Intersect: a new set of the receiver's kind;
\* Contains on a nil interface panics, which takes a value to ask about
SetIntersect(s, other) ==
    IF other = NilSet
    THEN IF s.vals = {} THEN [kind |-> s.kind, vals |-> {}] ELSE [kind |-> "panic"]
    ELSE [kind |-> s.kind, vals |-> {val \in s.vals : SetContains(other, val)}]

\* an Equals that compares the sizes only
SetEqualsBySize(s, other, same) ==
    IF same THEN TRUE
    ELSE IF other = NilSet THEN FALSE
    ELSE SetSize(s) = SetSize(other)

\* set.Equals, immutableSet.Equals on a receiver that is not nil; same says
\* that other is the receiver's own pointer
SetEquals(s, other, same) ==
    IF same THEN TRUE
    ELSE IF other = NilSet THEN FALSE
    ELSE IF SetSize(s) # SetSize(other) THEN FALSE
    ELSE \A val \in s.vals : SetContains(other, val)

InitSet ==
    /\ clock = 1
    /\ branches = {}
    /\ files = << >>
    /\ prs = << >>
    /\ reviews = << >>
    /\ tags = {}
    /\ tasks = << >>
    /\ nops = 0
    /\ \E s \in SetPool, other \in SetPool \cup {NilSet}, same \in BOOLEAN :
          /\ same => other = s
          /\ last = [op |-> "sets", s |-> s, other |-> other, same |-> same]

\* one call on the receiver; a write through the receiver shows in other when
\* other is the same pointer
SetCalled(op, arg, s, ret) ==
    /\ last.op = "sets"
    /\ last' = [op |-> op, arg |-> arg, before |-> last, s |-> s,
                other |-> IF last.same THEN s ELSE last.other, ret |-> ret]
    /\ UNCHANGED <<clock, branches, files, prs, reviews, tags, tasks, nops>>

CallAdd ==
    \E vals \in SetArgs :
        SetCalled("Add", vals, SetAdd(last.s, vals).s, SetAdd(last.s, vals).err)
CallDelete ==
    \E vals \in SetArgs :
        SetCalled("Delete", vals, SetDelete(last.s, vals).s, SetDelete(last.s, vals).err)
CallIntersect == SetCalled("Intersect", << >>, last.s, SetIntersect(last.s, last.other))
CallEquals == SetCalled("Equals", << >>, last.s, SetEquals(last.s, last.other, last.same))

NextSet == CallAdd \/ CallDelete \/ CallIntersect \/ CallEquals
SpecSet == InitSet /\ [][NextSet]_vars

\* -------------------------------------------------------------- properties
Fns(calls) == [i \in 1..Len(calls) |-> calls[i].fn]
AllOk(calls) == \A i \in 1..Len(calls) : calls[i].ok
Failed(l, fn) == \E i \in 1..Len(l.calls) : l.calls[i].fn = fn /\ ~l.calls[i].ok

\* C1: once the branch exists, a failing CreateFile or CreatePullRequest is
\* followed at once by DeleteBranch of that branch, which ends the calls, and
\* Submit returns no identifier and the error of the failing call, whether or
\* not DeleteBranch succeeds
C1_RevokeOnFailure ==
    last.op = "Submit" =>
        \A i \in 1..Len(last.calls) :
            (last.calls[i].fn \in {"CreateFile", "CreatePullRequest"} /\ ~last.calls[i].ok) =>
                /\ last.calls[1].fn = "CreateBranch" /\ last.calls[1].ok
                /\ Len(last.calls) = i + 1
                /\ last.calls[i + 1].fn = "DeleteBranch"
                /\ last.calls[i + 1].args = <<last.calls[1].args[1]>>
                /\ last.ret = NoId
                /\ last.err = Err(last.calls[i].fn)

\* the pull request could not be opened and the revoking DeleteBranch failed too
C1_Witness ==
    /\ last.op = "Submit"
    /\ Failed(last, "CreatePullRequest")
    /\ Failed(last, "DeleteBranch")
    /\ last.err = Err("CreatePullRequest")

\* the action of an RFC handed to the backend is the client's action, signed
SignedFrom(a, c) ==
    /\ a.actionType = c.actionType /\ a.target = c.target /\ a.data = c.data
    /\ a.signature = ActionToSha(c)

\* C2: a Submit whose calls all succeed makes exactly CreateBranch(id, main),
\* CreateFile(id, id, signed RFC), CreatePullRequest(id, main) in this order,
\* no DeleteBranch, and returns id, the identifier it generated
C2_SubmitOrder ==
    (last.op = "Submit" /\ AllOk(last.calls)) =>
        /\ Fns(last.calls) = <<"CreateBranch", "CreateFile", "CreatePullRequest">>
        /\ last.ret \in Ids
        /\ last.calls[1].args = <<last.ret, BASE_BRANCH>>
        /\ last.calls[2].args[1] = last.ret /\ last.calls[2].args[2] = last.ret
        /\ LET rfc == last.calls[2].args[3]
           IN /\ Len(rfc.actions) = Len(last.data.actions)
              /\ \A i \in 1..Len(rfc.actions) : SignedFrom(rfc.actions[i], last.data.actions[i])
              /\ rfc.signature # EmptyStr
        /\ last.calls[3].args = <<last.ret, BASE_BRANCH>>
        /\ last.err = NoErr
        /\ last.ret \in branches /\ last.ret \in DOMAIN prs

\* a Submit of an add action went through
C2_Witness ==
    /\ last.op = "Submit"
    /\ last.err = NoErr
    /\ last.data.actions = <<ClientAdd>>
    /\ Len(last.calls) = 3

\* C3: when CreateBranch fails, Submit returns that error and no identifier
\* and makes no other backend call
C3_CreateBranchFails ==
    (last.op = "Submit" /\ Failed(last, "CreateBranch")) =>
        /\ Fns(last.calls) = <<"CreateBranch">>
        /\ last.ret = NoId
        /\ last.err = Err("CreateBranch")

\* CreateBranch failed for an identifier whose branch another RFC holds
C3_Witness ==
    /\ last.op = "Submit"
    /\ Failed(last, "CreateBranch")
    /\ last.calls[1].args[1] \in DOMAIN prs

IsComment(a) == a.actionType = CommentAction
Comments(rfc) == SelectSeq(rfc.actions, IsComment)
\* this step is a request of kind op
Ran(op) == nops' = nops + 1 /\ last'.op = op

\* C4: the RFC Update hands to UpdateFile holds the client's actions, each
\* signed, followed by exactly the comment actions of the RFC stored before
\* the call, in stored order and with their stored signatures
C4_UpdateCarriesComments ==
    [][(Ran("Update") /\ Len(last'.calls) >= 3) =>
          LET new == last'.data.actions
              w == last'.calls[3].args[2].actions
              cs == Comments(Stored(last'.id))
          IN /\ last'.calls[3].fn = "UpdateFile"
             /\ Len(w) = Len(new) + Len(cs)
             /\ \A i \in 1..Len(new) : SignedFrom(w[i], new[i])
             /\ \A j \in 1..Len(cs) : w[Len(new) + j] = cs[j]]_vars

\* an Update with one client action wrote, behind it, the stored comment of
\* an RFC whose pull request had been reviewed
C4_Witness ==
    /\ Wrote(last) /\ Parsable(last.id)
    /\ last.data.actions = <<ClientAdd>>
    /\ Len(Stored(last.id).actions) = 2
    /\ IsComment(Stored(last.id).actions[2])
    /\ Len(reviews[last.id]) > 0

\* C5 as stated: a second Update of the same RFC with the same client actions
\* leaves the comment actions the first Update left
C5_UpdateTwiceSameComments ==
    [][(Ran("Update") /\ Wrote(last') /\ last'.again) =>
          Comments(UnmarshalRFC(files'[last'.id].json)) = Comments(Stored(last'.id))]_vars

\* C5: a second Update of the same RFC with the same client actions, none of
\* them a comment, leaves the comment actions the first Update left
C5_UpdateTwiceNoClientComment ==
    [][(Ran("Update") /\ Wrote(last') /\ last'.again /\ Comments(last'.data) = << >>) =>
          Comments(UnmarshalRFC(files'[last'.id].json)) = Comments(Stored(last'.id))]_vars

\* the second of two equal Updates without a client comment wrote an RFC
\* that carries a comment
C5_Witness ==
    /\ Wrote(last) /\ last.again /\ Parsable(last.id)
    /\ Comments(last.data) = << >>
    /\ Comments(Stored(last.id)) # << >>

\* C6 as stated: once an Update has overwritten the RFC file no approval of
\* the pull request is left standing
C6_NoApprovalSurvivesUpdate ==
    Wrote(last) =>
        \A i \in 1..Len(reviews[last.id]) : reviews[last.id][i].state # APPROVED_STATE

\* C7: when UpdateFile fails Update returns that error after exactly
\* GetPullRequest, GetRFCContents, UpdateFile; the RFC it tried to write
\* already carried the stored comments and the hash taken over them
C7_UpdateFileFailsLast ==
    [][(Ran("Update") /\ Failed(last', "UpdateFile")) =>
          LET w == last'.calls[3].args[2]
              cs == Comments(Stored(last'.id))
              n == Len(last'.data.actions)
          IN /\ Fns(last'.calls) = <<"GetPullRequest", "GetRFCContents", "UpdateFile">>
             /\ last'.err = Err("UpdateFile") /\ last'.ret = NoId
             /\ Len(w.actions) = n + Len(cs)
             /\ \A j \in 1..Len(cs) : w.actions[n + j] = cs[j]
             /\ w.signature = RFCToSha([w EXCEPT !.signature = last'.data.signature])
             /\ reviews' = reviews]_vars

\* UpdateFile failed for an RFC with a stored comment and a standing approval
C7_Witness ==
    /\ last.op = "Update" /\ Failed(last, "UpdateFile")
    /\ Parsable(last.id) /\ Comments(Stored(last.id)) # << >>
    /\ \E i \in 1..Len(reviews[last.id]) : reviews[last.id][i].state = APPROVED_STATE

\* C8: an Update that cannot fetch the pull request, fetch the content or
\* parse it returns that error and writes nothing: the RFC file and the
\* reviews stay as they were
C8_LookupFailureWritesNothing ==
    [][(Ran("Update") /\ last'.err \in {Err("GetPullRequest"), Err("GetRFCContents"),
                                        Err("Unmarshal")}) =>
          /\ files' = files /\ reviews' = reviews
          /\ \A i \in 1..Len(last'.calls) :
                last'.calls[i].fn \in {"GetPullRequest", "GetRFCContents"}
          /\ last'.ret = NoId]_vars

\* an Update found a file that does not parse while an approval stands
C8_Witness ==
    /\ last.op = "Update" /\ last.err = Err("Unmarshal")
    /\ \E i \in 1..Len(reviews[last.id]) : reviews[last.id][i].state = APPROVED_STATE

NumLoad(rfc) == Cardinality(LoadIndexes(rfc))
\* the RFCs the workflow holds: the stored ones and those in the hands of a
\* background task
Held ==
    {Stored(id) : id \in {i \in DOMAIN files : Parsable(i)}}
        \cup {tasks[t].rfc : t \in DOMAIN tasks}

\* C9 as stated: no RFC the workflow holds has more than one load action
C9_AtMostOneLoad == \A rfc \in Held : NumLoad(rfc) <= 1

\* C9: the workflow never adds a second load action by itself: an RFC with
\* n > 1 load actions comes from an RFC that had as many, from a Submit or
\* Update whose client actions hold n load actions, or from a review whose
\* type reads "load"
C9_LoadsOnlyFromClient ==
    [][\A rfc \in Held' :
          NumLoad(rfc) > 1 =>
              \/ \E old \in Held : NumLoad(old) >= NumLoad(rfc)
              \/ (Ran("Submit") \/ Ran("Update")) /\ NumLoad(last'.data) = NumLoad(rfc)
              \/ Ran("Review") /\ ToLower(last'.data.type) = LoadAction]_vars

\* a load went through LOAD REQUESTED, LOADING and SUCCESSFUL and the RFC
\* holds the one load action, which reads SUCCESSFUL
C9_Witness ==
    \E t \in DOMAIN tasks :
        /\ tasks[t].kind = "loadRequest" /\ tasks[t].pc = "done" /\ tasks[t].result = NoErr
        /\ NumLoad(tasks[t].rfc) = 1
        /\ GetLoadStatus(tasks[t].rfc) = Str(SUCCESSFUL_STATUS)
        /\ Parsable(tasks[t].id) /\ NumLoad(Stored(tasks[t].id)) = 1

\* the actions AddComments appended
Added(l) ==
    [i \in 1..(Len(l.rfc.actions) - Len(l.before.actions)) |->
        l.rfc.actions[Len(l.before.actions) + i]]
\* the number of actions of rfc signed sig
Occurs(rfc, sig) == Cardinality({i \in 1..Len(rfc.actions) : rfc.actions[i].signature = sig})
ActionTargeted(a, sig) == a.target = Target(ActionTarget, "", SignatureLookupKey, sig)
RfcTargeted(a, rfc) == a.target = Target(RfcTarget, "", SignatureLookupKey, rfc.signature)
NoteOf(a) == IF HasKey(a.data, NoteData) THEN Get(a.data, NoteData) ELSE EmptyStr
\* how many appended comments are aimed at the action signed sig, and how
\* many at the RFC with the given note
NumActionTargeted(l, sig) ==
    Cardinality({i \in DOMAIN Added(l) : ActionTargeted(Added(l)[i], sig)})
NumRfcTargeted(l, note) ==
    Cardinality({i \in DOMAIN Added(l) :
                    RfcTargeted(Added(l)[i], l.before) /\ NoteOf(Added(l)[i]) = note})
\* the note AddComments leaves for a target it did not find
Dangling(sig) == [note |-> sig]

\* C10 as stated: the comments of a target that is the signature of an action
\* are aimed at that action; the comments of any other target are aimed at
\* the RFC and carry a note
C10_CommentTargets ==
    last.op = "AddComments" =>
        /\ \A i \in DOMAIN Added(last) : IsComment(Added(last)[i])
        /\ \A sig \in DOMAIN last.comments :
              IF Occurs(last.before, sig) > 0
              THEN /\ NumActionTargeted(last, sig)
                        = Occurs(last.before, sig) * Len(last.comments[sig])
                   /\ NumRfcTargeted(last, Dangling(sig)) = 0
              ELSE /\ NumActionTargeted(last, sig) = 0
                   /\ NumRfcTargeted(last, Dangling(sig)) = Len(last.comments[sig])
        /\ NumRfcTargeted(last, EmptyStr) = 0

\* the comments of the RFC's own signature, when no action bears it
OwnComments(l) ==
    IF l.before.signature \in DOMAIN l.comments /\ Occurs(l.before, l.before.signature) = 0
    THEN Len(l.comments[l.before.signature]) ELSE 0

\* C10: the comments of a target that is the signature of an action are
\* aimed at that action; the comments of a target that is no action's
\* signature are aimed at the RFC, with a note when the target is not the
\* RFC's own signature and without one when it is
C10_CommentTargetsOwnSignature ==
    last.op = "AddComments" =>
        /\ \A i \in DOMAIN Added(last) : IsComment(Added(last)[i])
        /\ \A sig \in DOMAIN last.comments :
              CASE Occurs(last.before, sig) > 0 ->
                     /\ NumActionTargeted(last, sig)
                          = Occurs(last.before, sig) * Len(last.comments[sig])
                     /\ NumRfcTargeted(last, Dangling(sig)) = 0
                [] Occurs(last.before, sig) = 0 /\ sig # last.before.signature ->
                     /\ NumActionTargeted(last, sig) = 0
                     /\ NumRfcTargeted(last, Dangling(sig)) = Len(last.comments[sig])
                [] OTHER ->
                     /\ NumActionTargeted(last, sig) = 0
                     /\ NumRfcTargeted(last, Dangling(sig)) = 0
        /\ NumRfcTargeted(last, EmptyStr) = OwnComments(last)

\* AddComments ran with comments for an action of the RFC and comments for a
\* signature the RFC does not know
C10_Witness ==
    /\ last.op = "AddComments"
    /\ \E sig \in DOMAIN last.comments :
          Occurs(last.before, sig) > 0 /\ NumActionTargeted(last, sig) > 0
    /\ \E sig \in DOMAIN last.comments :
          /\ Occurs(last.before, sig) = 0 /\ sig # last.before.signature
          /\ NumRfcTargeted(last, Dangling(sig)) > 0

RECURSIVE SumOver(_, _)
\* the sum of f[k] over the keys k in S
SumOver(f, S) ==
    IF S = {} THEN 0
    ELSE LET k == CHOOSE k \in S : TRUE IN f[k] + SumOver(f, S \ {k})
\* the number of texts handed to AddComments
NumTexts(comments) == SumOver([sig \in DOMAIN comments |-> Len(comments[sig])], DOMAIN comments)

\* C11 as stated: AddComments appends one comment action per text, whatever
\* the targets are and whatever actions the RFC holds
C11_OneCommentPerText ==
    last.op = "AddComments" =>
        /\ Len(Added(last)) = NumTexts(last.comments)
        /\ \A i \in DOMAIN Added(last) : IsComment(Added(last)[i])

\* what an action says: its type, its target and the entries of its data
SameContent(a, b) ==
    a.actionType = b.actionType /\ a.target = b.target /\ a.data.kv = b.data.kv

C13_SignatureNotHashed ==
    (last.op = "ToSha" /\ SameContent(last.a, last.b)) => last.ha = last.hb

\* the RFC signature is the hash of the RFC as it stands, its own signature
\* field left out
Fresh(rfc) == rfc.signature = RFCToSha([rfc EXCEPT !.signature = EmptyStr])

\* C14 as stated: every stored RFC bears the hash of the actions it is
\* stored with
C14_RfcSignatureFresh ==
    \A id \in DOMAIN files : Parsable(id) => Fresh(Stored(id))

AllSigned(rfc) == \A i \in 1..Len(rfc.actions) : rfc.actions[i].signature # EmptyStr
\* the RFC a call hands to the backend, if it hands one
Writes(c) == c.fn \in {"CreateFile", "UpdateFile"}
Written(c) == IF c.fn = "CreateFile" THEN c.args[3] ELSE c.args[2]

NoCommentAtAll(data) ==
    /\ data.topLevelComment = ""
    /\ \A sig \in DOMAIN data.comments : data.comments[sig] = << >>

\* C16 as stated: a COMMENT or REQUEST_CHANGES review without any comment
\* is rejected before any backend call
C16_EmptyReviewRejected ==
    (/\ last.op = "Review"
     /\ last.data.type \in {COMMENT_REVIEW_TYPE, REQUEST_CHANGES_REVIEW_TYPE}
     /\ NoCommentAtAll(last.data)) =>
        last.calls = << >> /\ last.err = Err("Validation")

\* a comment AddComments built from one of the texts of the review
PerTargetComment(a, data) ==
    /\ IsComment(a) /\ HasKey(a.data, CommenterData) /\ HasKey(a.data, CommentData)
    /\ \E sig \in DOMAIN data.comments :
          \E j \in 1..Len(data.comments[sig]) :
              Get(a.data, CommentData) = Str(data.comments[sig][j])
\* the action that records the review itself
RecordsReview(a, data, rfc) ==
    /\ a.actionType = ToLower(data.type)
    /\ a.target = Target(RfcTarget, "", SignatureLookupKey, rfc.signature)
    /\ ~PerTargetComment(a, data)
\* the actions the RFC `w` holds behind those of `old`
Appended(w, old) == [i \in 1..(Len(w.actions) - Len(old.actions)) |-> w.actions[Len(old.actions) + i]]

\* C17: the RFC a Review writes holds, behind the stored actions and the
\* per-target comments, exactly one rfc-targeted action recording the review
\* (type in lower case, aimed at the RFC signature) when the review has a
\* top-level comment or is not a COMMENT, and none otherwise
C17_ReviewActionIff ==
    [][(Ran("Review") /\ Len(last'.calls) >= 4) =>
          LET data == last'.data
              old == Stored(last'.id)
              added == Appended(last'.calls[4].args[2], old)
              recs == {i \in DOMAIN added : RecordsReview(added[i], data, old)}
          IN /\ last'.calls[4].fn = "UpdateFile"
             /\ \A i \in DOMAIN added \ recs : PerTargetComment(added[i], data)
             /\ IF data.type # COMMENT_REVIEW_TYPE \/ data.topLevelComment # ""
                THEN recs = {Len(added)}
                ELSE recs = {}]_vars

\* a REQUEST_CHANGES review with a top-level comment and a per-target comment
\* went through
C17_Witness ==
    /\ last.op = "Review" /\ last.err = NoErr
    /\ last.data.type = REQUEST_CHANGES_REVIEW_TYPE
    /\ last.data.topLevelComment # ""
    /\ DOMAIN last.data.comments # {}
    /\ Parsable(last.id)
    /\ Stored(last.id).actions[Len(Stored(last.id).actions)].actionType = "request_changes"

\* C18 as stated: the action that records a review holds the login under
\* "reviewer" (APPROVE, REQUEST_CHANGES) or "commenter" (COMMENT), and the
\* top-level comment when there is one
C18_ReviewActionHoldsLogin ==
    (/\ last.op = "Review" /\ Len(last.calls) >= 4
     /\ (last.data.type # COMMENT_REVIEW_TYPE \/ last.data.topLevelComment # "")) =>
        LET w == last.calls[4].args[2].actions
            r == w[Len(w)]
            key == IF last.data.type = COMMENT_REVIEW_TYPE THEN CommenterData
                   ELSE ReviewerData
        IN /\ HasKey(r.data, key) /\ Get(r.data, key) = Str(UserLogin)
           /\ last.data.topLevelComment # "" =>
                 /\ HasKey(r.data, CommentData)
                 /\ Get(r.data, CommentData) = Str(last.data.topLevelComment)

\* C19: a Review starts a background task exactly when it is an APPROVE
\* that asks for the load and every step of it succeeded, the write of the
\* RFC and the submission of the review included; the task is
\* attemptLoadAndMerge on the RFC just written
C19_ReviewSpawnsAfterSuccess ==
    [][Ran("Review") =>
          IF /\ last'.data.type = APPROVE_REVIEW_TYPE /\ last'.data.loadOnApproval
             /\ last'.err = NoErr
          THEN /\ Fns(last'.calls) = <<"GetPullRequest", "GetUserLogin", "GetRFCContents",
                                      "UpdateFile", "CreateReview">>
               /\ AllOk(last'.calls)
               /\ Len(tasks') = Len(tasks) + 1
               /\ \A t \in DOMAIN tasks : tasks'[t] = tasks[t]
               /\ LET new == tasks'[Len(tasks')]
                  IN /\ new.kind = "attemptLoadAndMerge" /\ new.pc = "lm_GetUserLogin"
                     /\ new.id = last'.id
                     /\ new.rfc = last'.calls[4].args[2]
          ELSE tasks' = tasks]_vars

\* an approval that asked for the load started its task
C19_Witness ==
    /\ last.op = "Review" /\ last.spawned
    /\ last.data.type = APPROVE_REVIEW_TYPE /\ last.data.loadOnApproval
    /\ Len(tasks) > 0
    /\ tasks[Len(tasks)].kind = "attemptLoadAndMerge"

\* this step is a backend call of task t
Stepped(t) == last'.op = "task" /\ last'.t = t /\ tasks' # tasks
\* task t hears that the pull request is not mergeable, for the first time
FirstVerdictFalse(t) ==
    /\ t \in DOMAIN tasks /\ tasks[t].pc = "lm_GetMergeability_1"
    /\ Stepped(t) /\ last'.calls[1].args[2] = "false"
\* task t makes the write that follows that verdict
AfterVerdictFalse(t) ==
    t \in DOMAIN tasks /\ tasks[t].pc = "lm_UpdateFile_na" /\ Stepped(t)
StoredStatus(f, id) == GetLoadStatus(UnmarshalRFC(f[id].json))

\* C20 as stated: after a first verdict "not mergeable" the task writes
\* not_applicable, ends without error and does nothing else
C20_NotMergeableStops ==
    [][\A t \in TaskIds :
          /\ FirstVerdictFalse(t) =>
                /\ tasks'[t].pc = "lm_UpdateFile_na"
                /\ GetLoadStatus(tasks'[t].rfc) = Str(NOT_APPLICABLE_STATUS)
          /\ AfterVerdictFalse(t) =>
                /\ Fns(last'.calls) = <<"UpdateFile">>
                /\ tasks'[t].pc = "done" /\ tasks'[t].result = NoErr
                /\ StoredStatus(files', tasks[t].id) = Str(NOT_APPLICABLE_STATUS)
          /\ (t \in DOMAIN tasks /\ tasks[t].pc = "done") => tasks'[t] = tasks[t]]_vars

\* C20: after a first verdict "not mergeable" the task makes one more call,
\* the write of not_applicable, and ends: without error and with
\* not_applicable stored when the write succeeds, with the write error and
\* the file untouched when it fails; it never loads, merges or tags
C20_NotMergeableStopsOrFails ==
    [][\A t \in TaskIds :
          /\ FirstVerdictFalse(t) =>
                /\ tasks'[t].pc = "lm_UpdateFile_na"
                /\ GetLoadStatus(tasks'[t].rfc) = Str(NOT_APPLICABLE_STATUS)
                /\ files' = files /\ prs' = prs /\ tags' = tags
          /\ AfterVerdictFalse(t) =>
                /\ Fns(last'.calls) = <<"UpdateFile">>
                /\ last'.calls[1].args = <<tasks[t].id, tasks[t].rfc>>
                /\ tasks'[t].pc = "done"
                /\ prs' = prs /\ tags' = tags
                /\ IF last'.calls[1].ok
                   THEN /\ tasks'[t].result = NoErr
                        /\ StoredStatus(files', tasks[t].id) = Str(NOT_APPLICABLE_STATUS)
                   ELSE /\ tasks'[t].result = Err("UpdateFile")
                        /\ files' = files
          /\ (t \in DOMAIN tasks /\ tasks[t].pc = "done") => tasks'[t] = tasks[t]]_vars

\* a task that heard "not mergeable" has stored not_applicable and ended
\* without error; nothing was merged or tagged
C20_Witness ==
    /\ last.op = "task"
    /\ tasks[last.t].kind = "attemptLoadAndMerge"
    /\ tasks[last.t].pc = "done" /\ tasks[last.t].result = NoErr
    /\ GetLoadStatus(tasks[last.t].rfc) = Str(NOT_APPLICABLE_STATUS)
    /\ StoredStatus(files, tasks[last.t].id) = Str(NOT_APPLICABLE_STATUS)
    /\ prs[tasks[last.t].id] = "open" /\ tags = {}


\* GetMergeability has returned
Returned == last.op = "GetMergeability" /\ last.pc = "done"
Observed(seq) == {seq[i] : i \in DOMAIN seq}
\* the state of the pull request on the last fetch
Resolved == last.states[Len(last.states)]
AllBut(seq) == {seq[i] : i \in 1..(Len(seq) - 1)}

\* C26: when no backend query failed, GetMergeability returns true if and
\* only if the last mergeable state it fetched is "clean", and false for every
\* other determined state (dirty, blocked, unstable), whatever the combined
\* status was on the earlier polls
C26_MergeableIffClean ==
    (Returned /\ "err" \notin Observed(last.statuses) \cup Observed(last.states)) =>
        /\ last.out = "ok" <=> Resolved = MERGEABILITY_CLEAN_STATE
        /\ Resolved \in {"dirty", "blocked", "unstable"} => last.out = "false"

\* checks pending on the first poll, "clean" fetched on a later try: true
C26_Witness ==
    /\ Returned
    /\ last.statuses = <<MERGEABILITY_PENDING_STATE, "success">>
    /\ last.states = <<MERGEABILITY_UNKNOWN_STATE, MERGEABILITY_CLEAN_STATE>>
    /\ last.out = "ok"

\* C27: when every fetch up to the retry limit shows the mergeable state
\* unknown or absent, GetMergeability returns an error; a verdict, true or
\* false, is returned only for a determined state
C27_UnknownIsAnError ==
    Returned =>
        /\ (Len(last.states) = MERGEABILITY_RETRY_COUNT
              /\ \A s \in Observed(last.states) : StillUnknown(s)) => last.out = "err"
        /\ last.out \in {"ok", "false"} => ~StillUnknown(Resolved)

C27_Witness ==
    /\ Returned
    /\ last.states = <<MERGEABILITY_UNKNOWN_STATE, "nil", MERGEABILITY_UNKNOWN_STATE>>
    /\ last.out = "err"

\* C28: GetMergeability makes at most MERGEABILITY_RETRY_COUNT combined
\* status queries and as many fetches of the pull request; only the last
\* answer of each loop can be other than pending (unknown), a failed query
\* is the last query made, and until it has returned it can take a step
C28_BoundedPolling ==
    last.op = "GetMergeability" =>
        /\ Len(last.statuses) <= MERGEABILITY_RETRY_COUNT
        /\ Len(last.states) <= MERGEABILITY_RETRY_COUNT
        /\ \A s \in AllBut(last.statuses) : StillPending(s)
        /\ \A s \in AllBut(last.states) : StillUnknown(s)
        /\ "err" \in Observed(last.statuses) => last.pc = "done" /\ last.states = << >>
        /\ "err" \in Observed(last.states) => last.pc = "done" /\ last.out = "err"
        /\ last.pc # "done" => ENABLED NextMergeability

C28_Witness ==
    /\ Returned
    /\ Len(last.statuses) = MERGEABILITY_RETRY_COUNT
    /\ Len(last.states) = MERGEABILITY_RETRY_COUNT


\* what the task t has persisted, asked and attempted, in order
EventsOf(t, ev) ==
    LET Is(e) == e.ev = ev
        es == SelectSeq(tasks[t].log, Is)
    IN [i \in 1..Len(es) |-> es[i].v]
LoadAndMergeRuns == {t \in DOMAIN tasks : tasks[t].kind = "attemptLoadAndMerge"}
IsPrefix(s, full) == Len(s) <= Len(full) /\ \A i \in 1..Len(s) : s[i] = full[i]
\* nobody has written the file since the task t did
Untouched(t) ==
    tasks[t].id \in DOMAIN files /\ files[tasks[t].id] = [json |-> tasks[t].base]

\* C21: a LoadAndMerge run that was told "mergeable" before the load and
\* "not mergeable" after the successful load has ended with the error
\* "loaded but not merged", has attempted no merge and no tag, and the last
\* status it persisted, still in the file unless another writer replaced it,
\* is successful
C21_LoadedButNotMerged ==
    \A t \in LoadAndMergeRuns :
        EventsOf(t, "GetMergeability") = <<Str("ok"), Str("false")>> =>
            /\ tasks[t].pc = "done"
            /\ tasks[t].result = Err("LOADED BUT NOT MERGED")
            /\ EventsOf(t, "MergePullRequest") = << >>
            /\ EventsOf(t, "CreateTag") = << >>
            /\ GetLoadStatus(tasks[t].rfc) = Str(SUCCESSFUL_STATUS)
            /\ Untouched(t) => StoredStatus(files, tasks[t].id) = Str(SUCCESSFUL_STATUS)

C21_Witness ==
    \E t \in LoadAndMergeRuns :
        /\ EventsOf(t, "GetMergeability") = <<Str("ok"), Str("false")>>
        /\ tasks[t].result = Err("LOADED BUT NOT MERGED")
        /\ Untouched(t)
        /\ prs[tasks[t].id] = "open" /\ tags = {}

\* C22: the statuses one LoadAndMerge run has persisted are, in order, a
\* prefix of (load_requested, loading, successful) or of (load_requested,
\* not_applicable); a run that has attempted the merge has persisted successful
\* and was told "mergeable" by a query made after that write
C22_StatusOrder ==
    \A t \in LoadAndMergeRuns :
        /\ \/ IsPrefix(EventsOf(t, "UpdateFile"),
                       <<Str(LOAD_REQUESTED_STATUS), Str(LOADING_STATUS),
                         Str(SUCCESSFUL_STATUS)>>)
           \/ IsPrefix(EventsOf(t, "UpdateFile"),
                       <<Str(LOAD_REQUESTED_STATUS), Str(NOT_APPLICABLE_STATUS)>>)
        /\ (tasks[t].pc = "mg_MergePullRequest" \/ EventsOf(t, "MergePullRequest") # << >>) =>
              \E i, j \in DOMAIN tasks[t].log :
                  /\ i < j
                  /\ tasks[t].log[i] = [ev |-> "UpdateFile", v |-> Str(SUCCESSFUL_STATUS)]
                  /\ tasks[t].log[j] = [ev |-> "GetMergeability", v |-> Str("ok")]

\* a run that went through all three statuses and on to the merge
C22_Witness ==
    \E t \in LoadAndMergeRuns :
        /\ EventsOf(t, "UpdateFile") =
              <<Str(LOAD_REQUESTED_STATUS), Str(LOADING_STATUS), Str(SUCCESSFUL_STATUS)>>
        /\ EventsOf(t, "MergePullRequest") = <<Str("ok")>>


\* C23: when the hand-over of the content to the data store failed, the load
\* ends with the status failed persisted, and a Status asked afterwards,
\* nobody else having written the file, answers failed
C23_FailedLoadObservable ==
    (last.op = "Status" /\ last.err = NoErr) =>
        \A t \in DOMAIN tasks :
            (/\ tasks[t].id = last.id
             /\ EventsOf(t, "store") = <<Str("failed")>>
             /\ tasks[t].pc = "done" /\ tasks[t].result = NoErr
             /\ Untouched(t)) => last.ret = Str(FAILED_STATUS)


MergeAttempts(calls) == {i \in DOMAIN calls : calls[i].fn = "MergePullRequest"}
TagAttempts(calls) == {i \in DOMAIN calls : calls[i].fn = "CreateTag"}

\* C24: CreateTag is called only right after a MergePullRequest that succeeded
\* in the same operation, with the sha that merge returned and the RFC
\* identifier as the name; when the merge fails no tag is attempted and the
\* merge error is what the operation returns. This holds for MergeRequest and
\* for the merge at the end of a LoadAndMerge run, and every tag in the
\* repository is the tag of a merged request
C24_TagAfterMerge ==
    /\ last.op = "Merge" =>
          /\ \A i \in TagAttempts(last.calls) :
                /\ i - 1 \in MergeAttempts(last.calls) /\ last.calls[i - 1].ok
                /\ last.calls[i].args = <<MergeSha(last.id), last.id>>
          /\ \A i \in MergeAttempts(last.calls) :
                ~last.calls[i].ok =>
                    TagAttempts(last.calls) = {} /\ last.err = Err("MergePullRequest")
    /\ \A t \in DOMAIN tasks :
          /\ EventsOf(t, "CreateTag") # << >> => EventsOf(t, "MergePullRequest") = <<Str("ok")>>
          /\ EventsOf(t, "MergePullRequest") = <<Str("err")>> =>
                /\ EventsOf(t, "CreateTag") = << >>
                /\ tasks[t].pc = "done" /\ tasks[t].result = Err("MergePullRequest")
    /\ (last.op = "task" /\ last.calls[1].fn = "CreateTag") =>
          last.calls[1].args = <<MergeSha(tasks[last.t].id), tasks[last.t].id>>
    /\ \A tag \in tags : tag[2] = MergeSha(tag[1]) /\ prs[tag[1]] = "merged"

\* MergeRequest merged and tagged; a run merged and tagged
C24_Witness ==
    /\ last.op = "Merge" /\ last.err = NoErr
    /\ tags = {<<last.id, MergeSha(last.id)>>}

C24_WitnessTask ==
    \E t \in DOMAIN tasks :
        /\ EventsOf(t, "CreateTag") = <<Str("ok")>>
        /\ tags = {<<tasks[t].id, MergeSha(tasks[t].id)>>}


\* the RFC has a load action, and the first one carries a status
HasLoadStatus(rfc) ==
    /\ LoadIndexes(rfc) # {}
    /\ \A i \in LoadIndexes(rfc) :
          (\A j \in LoadIndexes(rfc) : i <= j) => HasKey(rfc.actions[i].data, LoadStatus)
FirstLoadStatus(rfc) ==
    LET i == CHOOSE i \in LoadIndexes(rfc) : \A j \in LoadIndexes(rfc) : i <= j
    IN Get(rfc.actions[i].data, LoadStatus)

\* C25: a Status request makes no call that writes and leaves the branches,
\* the files, the pull requests, the reviews, the tags and the tasks as they
\* were; when it succeeds it answers the data.status of the stored RFC's load
\* action, and "none" when the stored RFC has no load action
C25_StatusReadOnly ==
    [][(last'.op = "Status" /\ nops' = nops + 1) =>
          /\ \A i \in DOMAIN last'.calls : last'.calls[i].fn = "GetRFCContents"
          /\ UNCHANGED <<branches, files, prs, reviews, tags, tasks>>
          /\ last'.err = NoErr =>
                /\ LoadIndexes(Stored(last'.id)) = {} => last'.ret = Str("none")
                /\ HasLoadStatus(Stored(last'.id)) =>
                      last'.ret = FirstLoadStatus(Stored(last'.id))]_vars

\* Status answers "loading" while the load runs
C25_Witness ==
    /\ last.op = "Status" /\ last.err = NoErr
    /\ last.ret = Str(LOADING_STATUS)
    /\ StoredStatus(files, last.id) = Str(LOADING_STATUS)

\* Status answers "none" for an RFC nobody asked to load
C25_WitnessNone ==
    /\ last.op = "Status" /\ last.err = NoErr
    /\ last.ret = Str("none")
    /\ LoadIndexes(Stored(last.id)) = {}


\* C29: a task that read the RFC, or wrote it, before another operation wrote
\* the file of the same identifier does not get its own next write through:
\* every UpdateFile of a task that succeeds finds the file as the task left it
C29_NoLostUpdate ==
    [][\A t \in DOMAIN tasks :
          (/\ last'.op = "task" /\ last'.t = t /\ tasks'[t] # tasks[t]
           /\ last'.calls[1].fn = "UpdateFile" /\ last'.calls[1].ok) => Untouched(t)]_vars


\* the ends of a background task
MergedAndTagged(t) ==
    tasks[t].result = NoErr /\ EventsOf(t, "CreateTag") = <<Str("ok")>>
Loaded(t) ==
    /\ tasks[t].kind = "loadRequest" /\ tasks[t].result = NoErr
    /\ GetLoadStatus(tasks[t].rfc) = Str(SUCCESSFUL_STATUS)
NotApplicable(t) ==
    tasks[t].result = NoErr /\ GetLoadStatus(tasks[t].rfc) = Str(NOT_APPLICABLE_STATUS)
EndedInFailure(t) == tasks[t].result # NoErr
Ended(t) ==
    /\ tasks[t].pc = "done"
    /\ MergedAndTagged(t) \/ Loaded(t) \/ NotApplicable(t) \/ EndedInFailure(t)

\* C30: a started task can take its next step whatever the requests do, the
\* one that started it having returned, and under fair scheduling every
\* started task reaches an end: merged and tagged, loaded, not_applicable, or
\* a failure
C30_TasksRunToTheEnd ==
    /\ [](\A t \in TaskIds : Running(t) => ENABLED TaskStep(t))
    /\ \A t \in TaskIds : (t \in DOMAIN tasks) ~> (t \in DOMAIN tasks /\ Ended(t))

\* a task still running after the budget of requests is used up
C30_Witness ==
    \E t \in DOMAIN tasks :
        /\ Running(t) /\ tasks[t].log # << >>
        /\ last.op = "task" /\ nops = MaxOps


\* every one of the MERGEABILITY_RETRY_COUNT status polls answered "pending"
AlwaysPending ==
    /\ last.op = "GetMergeability"
    /\ Len(last.statuses) = MERGEABILITY_RETRY_COUNT
    /\ \A s \in Observed(last.statuses) : StillPending(s)

\* C40: when all MERGEABILITY_RETRY_COUNT status polls answered "pending",
\* GetMergeability goes on to fetch the request; it returns true if and only if
\* the last merge state fetched is "clean", and an error only when a fetch
\* failed or the merge state stayed unknown
C40_PendingToTheEndIsNoError ==
    AlwaysPending =>
        /\ last.pc # "status"
        /\ last.pc = "done" =>
              /\ last.states # << >>
              /\ last.out = "ok" <=> Resolved = MERGEABILITY_CLEAN_STATE
              /\ last.out = "err" <=> (Resolved = "err" \/ StillUnknown(Resolved))

C40_Witness ==
    /\ AlwaysPending /\ Returned
    /\ last.states = <<MERGEABILITY_CLEAN_STATE>>
    /\ last.out = "ok"


ImmutableCall(op) == last.op = op /\ last.before.s.kind = "immutableSet"

\* C33: Add and Delete on an immutable set return the error "unsupported
\* operation ... cannot modify an immutable set" and leave its values as they
\* were, whatever the set and the arguments
C33_ImmutableRejectsWrites ==
    /\ ImmutableCall("Add") =>
          /\ last.ret = "unsupported operation: Add. cannot modify an immutable set"
          /\ last.s = last.before.s /\ last.other = last.before.other
    /\ ImmutableCall("Delete") =>
          /\ last.ret = "unsupported operation: Delete. cannot modify an immutable set"
          /\ last.s = last.before.s /\ last.other = last.before.other

\* Add of a value the immutable set does not hold
C33_Witness ==
    /\ ImmutableCall("Add")
    /\ last.arg = <<4>> /\ last.s.vals = {1, 2}
    /\ last.ret # "nil"

\* C34: Intersect with a set returns a set that holds exactly the values held
\* by both the receiver and the argument, and leaves both as they were
C34_IntersectExact ==
    (last.op = "Intersect" /\ last.before.other # NilSet) =>
        /\ last.ret.kind \in {"set", "immutableSet"}
        /\ \A val \in SetValues :
              val \in last.ret.vals <=> (val \in last.before.s.vals /\ val \in last.before.other.vals)
        /\ last.s = last.before.s /\ last.other = last.before.other

\* a mutable receiver and an immutable argument that share one value of two
C34_Witness ==
    /\ last.op = "Intersect"
    /\ last.before.s = [kind |-> "set", vals |-> {1, 2}]
    /\ last.before.other = [kind |-> "immutableSet", vals |-> {2, 4}]
    /\ last.ret.vals = {2}

\* the disjoint case: the empty set
C34_WitnessDisjoint ==
    /\ last.op = "Intersect"
    /\ last.before.s.vals = {1} /\ last.before.other # NilSet /\ last.before.other.vals = {2, 4}
    /\ last.ret.vals = {}

\* C35: Equals returns true exactly when the argument is a set that holds the
\* same values as the receiver, of whichever kind; it is true for the receiver
\* itself and false for the nil set
C35_EqualsIffSameValues ==
    last.op = "Equals" =>
        /\ last.ret <=> (last.before.other # NilSet /\ last.before.other.vals = last.before.s.vals)
        /\ last.before.same => last.ret
        /\ last.before.other = NilSet => ~last.ret

\* same size, one value different: not equal
C35_Witness ==
    /\ last.op = "Equals"
    /\ last.before.s = [kind |-> "set", vals |-> {1, 2}]
    /\ last.before.other = [kind |-> "immutableSet", vals |-> {1, 4}]
    /\ ~last.ret


\* C36: AddAction that does not fail leaves an action list one longer: the
\* old actions in their places and, last, the given action with the hash of
\* the action as given for signature; the RFC's signature and identifier are
\* untouched. AddAction that fails to sign returns the error and the RFC is as
\* it was
C36_AddActionAppendsOne ==
    last.op = "AddAction" =>
        IF last.err = "nil"
        THEN /\ Len(last.rfc.actions) = Len(last.before.actions) + 1
             /\ \A i \in 1..Len(last.before.actions) :
                   last.rfc.actions[i] = last.before.actions[i]
             /\ last.rfc.actions[Len(last.rfc.actions)] =
                   [last.action EXCEPT !.signature = ActionToSha(last.action)]
             /\ last.rfc.signature = last.before.signature
             /\ last.rfc.identifier = last.before.identifier
        ELSE ~Marshalable(last.action) /\ last.rfc = last.before

\* an action added behind two stored ones
C36_Witness ==
    /\ last.op = "AddAction" /\ last.err = "nil"
    /\ Len(last.before.actions) = 2 /\ Len(last.rfc.actions) = 3
    /\ last.action.signature = Str("stale")

\* signing failed
C36_WitnessError ==
    /\ last.op = "AddAction" /\ last.err # "nil"
    /\ last.before.actions # << >>


Submits == {t \in DOMAIN tasks : tasks[t].kind = "SubmitRequest"}
\* the Submit t has created the workspace and has not deleted it
Owns(t) ==
    /\ EventsOf(t, "CreateBranch") = <<Str("ok")>>
    /\ EventsOf(t, "DeleteBranch") # <<Str("ok")>>
Returned37(t) == tasks[t].pc = "done" /\ tasks[t].result = NoErr

\* C37: of the Submits that drew the same identifier, at most one holds the
\* workspace at any time; a Submit that is about to write the file, open the
\* pull request or delete the branch holds the workspace it names, and so does
\* a Submit that returned its identifier: no two successful Submits return the
\* same identifier and none touches a workspace held by another
C37_FreshWorkspace ==
    \A t \in Submits :
        /\ tasks[t].pc \in {"sb_CreateFile", "sb_CreatePullRequest", "sb_DeleteBranch"} =>
              Owns(t) /\ tasks[t].id \in branches
        /\ Returned37(t) => Owns(t)
        /\ \A u \in Submits \ {t} :
              tasks[u].id = tasks[t].id =>
                  /\ ~(Owns(t) /\ Owns(u))
                  /\ ~(Returned37(t) /\ Returned37(u))

\* two Submits drew the same identifier; one returned it, the other was
\* refused the branch
C37_Witness ==
    \E t, u \in Submits :
        /\ t # u /\ tasks[t].id = tasks[u].id
        /\ Returned37(t)
        /\ tasks[u].pc = "done" /\ tasks[u].result = Err("CreateBranch")
        /\ tasks[u].base # tasks[t].base
        /\ files[tasks[t].id] = [json |-> tasks[t].base]


Approved(rs) == \E i \in DOMAIN rs : rs[i].state = APPROVED_STATE

\* a task has written the load status successful into the RFC of id
ReachedSuccessful(id) ==
    \E t \in DOMAIN tasks :
        /\ tasks[t].id = id
        /\ \E i \in DOMAIN EventsOf(t, "UpdateFile") :
              EventsOf(t, "UpdateFile")[i] = Str(SUCCESSFUL_STATUS)

\* C31: a pull request is merged only when it holds an approval and the load
\* status of its RFC has been written as successful, in MergeRequest and in the merge at the
\* end of a LoadAndMerge run alike
C31_LoadedPrecedesMerged ==
    [][\A id \in DOMAIN prs :
          (prs[id] # "merged" /\ prs'[id] = "merged") =>
              Approved(reviews[id]) /\ ReachedSuccessful(id)]_vars

\* C31 for the background merge: a task attempts MergePullRequest only after
\* it has written the load status successful, on a request that holds an
\* approval; MergeRequest is bound by neither
C31_TaskLoadedPrecedesMerged ==
    \A t \in DOMAIN tasks :
        \A i \in DOMAIN tasks[t].log :
            tasks[t].log[i].ev = "MergePullRequest" =>
                /\ Approved(reviews[tasks[t].id])
                /\ \E j \in 1..(i - 1) :
                      tasks[t].log[j] = [ev |-> "UpdateFile", v |-> Str(SUCCESSFUL_STATUS)]

C31_Witness ==
    \E t \in LoadAndMergeRuns :
        /\ EventsOf(t, "MergePullRequest") = <<Str("ok")>>
        /\ prs[tasks[t].id] = "merged"
        /\ ReachedSuccessful(tasks[t].id)


FirstLoadRequester(rfc) ==
    LET i == CHOOSE i \in LoadIndexes(rfc) : \A j \in LoadIndexes(rfc) : i <= j
    IN Get(rfc.actions[i].data, LoadRequester)
LoadReturns == last'.op = "Load" /\ nops' = nops + 1

\* C32: when LoadRequest returns without error the file holds the RFC with
\* load status load_requested and the user's login as requester, written by
\* the handler's own UpdateFile, and exactly one loadRequest task has been
\* added that holds this RFC and has made no call yet; when LoadRequest
\* returns an error (user, pull request, content, parsing or the write) no
\* task is added and the file is as it was
C32_RequestedBeforeLoad ==
    [][LoadReturns =>
          IF last'.err = NoErr
          THEN /\ Len(tasks') = Len(tasks) + 1
               /\ SubSeq(tasks', 1, Len(tasks)) = tasks
               /\ LET t == tasks'[Len(tasks')]
                  IN /\ t.kind = "loadRequest" /\ t.id = last'.id
                     /\ t.pc = "ld_GetUserLogin" /\ t.log = << >>
                     /\ GetLoadStatus(t.rfc) = Str(LOAD_REQUESTED_STATUS)
                     /\ FirstLoadRequester(t.rfc) = Str(UserLogin)
                     /\ files'[last'.id] = [json |-> MarshalRFC(t.rfc)]
                     /\ last'.calls[Len(last'.calls)] =
                            Call("UpdateFile", <<last'.id, t.rfc>>, TRUE)
          ELSE /\ tasks' = tasks
               /\ files' = files
               /\ last'.err \in {Err("GetUserLogin"), Err("GetPullRequest"),
                                 Err("GetRFCContents"), Err("Unmarshal"),
                                 Err("UpdateFile"), Err("panic")}]_vars

\* a load request went through: load_requested is stored, the task has not moved
C32_Witness ==
    /\ last.op = "Load" /\ last.err = NoErr
    /\ StoredStatus(files, last.id) = Str(LOAD_REQUESTED_STATUS)
    /\ tasks[Len(tasks)].pc = "ld_GetUserLogin"

\* the first write was refused: the error is returned and no task exists
C32_WitnessRefused ==
    /\ last.op = "Load" /\ last.err = Err("UpdateFile")
    /\ tasks = << >>
    /\ GetLoadStatus(Stored(last.id)) = [none |-> TRUE]


\* the comment actions of the RFC in a file
CommentsIn(file) ==
    LET rfc == UnmarshalRFC(file.json)
    IN {rfc.actions[i] : i \in {j \in DOMAIN rfc.actions :
                                   rfc.actions[j].actionType = CommentAction}}

\* C38: a load-status write of a background task removes no comment action
\* from the stored RFC: the comment actions the file held before the task's
\* UpdateFile are in the file after it
C38_CommentsSurviveStatusWrites ==
    [][\A t \in DOMAIN tasks :
          (/\ last'.op = "task" /\ last'.t = t /\ tasks'[t] # tasks[t]
           /\ last'.calls[1].fn = "UpdateFile" /\ last'.calls[1].ok
           /\ Parsable(tasks[t].id)) =>
              CommentsIn(files[tasks[t].id]) \subseteq CommentsIn(files'[tasks[t].id])]_vars


\* the actions of the RFC in a file that record a review or a comment
ReviewRecords(file) ==
    LET IsRecord(a) == a.actionType \in {ToLower(APPROVE_REVIEW_TYPE),
                                         ToLower(REQUEST_CHANGES_REVIEW_TYPE),
                                         CommentAction}
    IN SelectSeq(UnmarshalRFC(file.json).actions, IsRecord)

\* C39: a Review that returns an error has added no review action and no
\* comment action to the stored RFC, and has created no backend review
C39_FailedReviewLeavesNoRecord ==
    [][(/\ last'.op = "Review" /\ nops' = nops + 1
        /\ last'.err # NoErr /\ Parsable(last'.id)) =>
           /\ ReviewRecords(files'[last'.id]) = ReviewRecords(files[last'.id])
           /\ reviews' = reviews]_vars

====
